---- MODULE Spec2Model ----
(***************************************************************************)
(* Yao garbled circuits utility (garbled_circuits_utility): the garbling   *)
(* engine, the evaluation engine and the two-party protocol state machine. *)
(*                                                                         *)
(* Modelling conventions                                                   *)
(*  - A WireLabel (16 random bytes) is a record [id, lsb]: lsb is the      *)
(*    least significant bit of the last byte (the bit perm_bit reads), id  *)
(*    stands for the other 127 bits. Labels drawn by RAND_bytes get        *)
(*    pairwise distinct ids (a collision has probability 2^-127).          *)
(*  - A ciphertext row produced by encrypt_label is the record             *)
(*    [m, k1, k2, gid]: AES-128-ECB under the key PRF(k1, k2, gid) is an   *)
(*    injective function of the plaintext for a fixed key and behaves as   *)
(*    an independent permutation for every other key.                      *)
(*  - AES decryption under a non-matching key yields a block unrelated to  *)
(*    every label in use: the label JunkLabel(b), whose low bit b is drawn *)
(*    by the action that evaluates.                                        *)
(***************************************************************************)
EXTENDS Integers, Sequences, FiniteSets, TLC

\* ---------------------------------------------------------------- bounds
MaxInputs == 2        \* circuits have 1..MaxInputs input wires
MaxGates == 2         \* circuits garbled with point-and-permute have 1..MaxGates gates
MaxTableGates == 1    \* circuits garbled with shuffled (legacy) tables have 1..MaxTableGates gates
LargeGates == 465     \* gates of the large circuit: a CIRCUIT payload of 20 + 141 * 465 bytes
MaxOutputs == 2       \* circuits have one output wire, or MaxOutputs of them
MaxLines == 2         \* Bristol texts have up to MaxLines gate lines
MaxWires == 3         \* Bristol texts declare up to MaxWires wires

\* ------------------------------------------------------- common.h types
BinaryTypes == {"AND", "OR", "XOR", "NAND", "NOR"}
GateType == BinaryTypes \cup {"NOT", "INPUT", "OUTPUT"}

Bit(b) == IF b THEN 1 ELSE 0

gate_function(type, a, b) ==
    CASE type = "AND"  -> [threw |-> FALSE, value |-> a /\ b]
      [] type = "OR"   -> [threw |-> FALSE, value |-> a \/ b]
      [] type = "XOR"  -> [threw |-> FALSE, value |-> a # b]
      [] type = "NAND" -> [threw |-> FALSE, value |-> ~(a /\ b)]
      [] type = "NOR"  -> [threw |-> FALSE, value |-> ~(a \/ b)]
      [] type = "NOT"  -> [threw |-> FALSE, value |-> ~a]
      [] OTHER         -> [threw |-> TRUE, value |-> FALSE]

Gate(out, in1, in2, t) ==
    [output_wire |-> out, input_wire1 |-> in1, input_wire2 |-> in2, type |-> t]

\* ------------------------------------------------------------- sequences
RECURSIVE SeqSum(_)
SeqSum(s) == IF s = <<>> THEN 0 ELSE Head(s) + SeqSum(Tail(s))

Range(s) == {s[i] : i \in DOMAIN s}

Min(a, b) == IF a < b THEN a ELSE b

\* [from, to) as a sequence
Interval(from, to) == [i \in 1..(to - from) |-> from + i - 1]

\* a map (std::map) is a function on the set of its keys
MapPut(m, k, v) == (k :> v) @@ m
EmptyMap == [x \in {} |-> 0]

\* ------------------------------------------------------------- circuits
\* the circuit record the Bristol parser builds: input wires 0..n-1 in
\* partition order, output wires the last num_outputs wires
MakeCircuit(n, nout, gates, ipart) ==
    [num_inputs |-> n, num_outputs |-> nout, num_gates |-> Len(gates),
     num_wires |-> n + Len(gates), gates |-> gates,
     input_wires |-> Interval(0, n),
     output_wires |-> Interval(n + Len(gates) - nout, n + Len(gates)),
     input_partition |-> ipart, output_partition |-> <<nout>>]

\* spec section 3 (Circuit): gate inputs are input wires or outputs of
\* earlier gates, every non-input wire is written exactly once, unary
\* gates carry the sentinel -1
WellFormed(c) ==
    /\ c.num_inputs >= 1 /\ c.num_outputs >= 1 /\ c.num_gates = Len(c.gates)
    /\ c.input_wires = Interval(0, c.num_inputs)
    /\ c.output_wires = Interval(c.num_wires - c.num_outputs, c.num_wires)
    /\ \A i \in DOMAIN c.gates :
         LET g == c.gates[i]
             defined == Range(c.input_wires) \cup {c.gates[j].output_wire : j \in 1..(i-1)}
         IN /\ g.input_wire1 \in defined
            /\ g.output_wire \in 0..(c.num_wires - 1)
            /\ g.output_wire \notin defined
            /\ IF g.type = "NOT" THEN g.input_wire2 = -1 ELSE g.input_wire2 \in defined
    /\ \A w \in 0..(c.num_wires - 1) :
         w \in Range(c.input_wires) \/ \E i \in DOMAIN c.gates : c.gates[i].output_wire = w

\* the gates gate k of a circuit with n inputs is drawn from: it writes the
\* next free wire, reads the wire written last and, as its second input,
\* the first wire or one of the last two
GateChoices(n, k) ==
    {Gate(n + k - 1, n + k - 2, -1, "NOT")}
      \cup {Gate(n + k - 1, n + k - 2, w, t) :
               w \in {0, n + k - 3, n + k - 2} \cap 0..(n + k - 2), t \in BinaryTypes}

RECURSIVE GateSeqs(_, _)
GateSeqs(n, g) ==
    IF g = 0 THEN {<<>>}
    ELSE {Append(s, x) : s \in GateSeqs(n, g - 1), x \in GateChoices(n, g)}

DefaultPartition(n) == <<(n + 1) \div 2, n \div 2>>

Circuits(maxGates) ==
    UNION {{MakeCircuit(n, nout, gs, DefaultPartition(n)) :
               nout \in {1, Min(MaxOutputs, n + g)}, gs \in GateSeqs(n, g)} :
           n \in 1..MaxInputs, g \in 1..maxGates}

\* ------------------------------------------- GarbledCircuitManager: parser
\* A Bristol text is its content lines, tokenized: the header line, the
\* inputs line, the outputs line and the gate lines. A gate line is its
\* leading integer tokens (nums) and the token after them (type).
NoCircuit ==
    [num_inputs |-> 0, num_outputs |-> 0, num_gates |-> 0, num_wires |-> 0,
     gates |-> <<>>, input_wires |-> <<>>, output_wires |-> <<>>,
     input_partition |-> <<>>, output_partition |-> <<>>]

BristolText(ng, nw, ins, outs, lines) ==
    [num_gates |-> ng, num_wires |-> nw, inputs |-> ins, outputs |-> outs, gates |-> lines]

GateLine(nums, type) == [nums |-> nums, type |-> type]

\* std::toupper over the letters of a token
ToUpper(token) ==
    CASE token = "and" -> "AND"
      [] token = "inv" -> "INV"
      [] token = "Xor" -> "XOR"
      [] token = "input" -> "INPUT"
      [] OTHER -> token

normalize_gate_token(token) == IF ToUpper(token) = "INV" THEN "NOT" ELSE ToUpper(token)

\* common.h string_to_gate_type; threw: std::runtime_error
string_to_gate_type(str) ==
    IF str \in GateType THEN [threw |-> FALSE, type |-> str]
    ELSE IF str = "INV" THEN [threw |-> FALSE, type |-> "NOT"]
    ELSE [threw |-> TRUE, type |-> "INPUT"]

\* the set of wires check_wire_consistency has in defined_wires before gate i
RECURSIVE DefinedBefore(_, _)
DefinedBefore(c, i) ==
    IF i <= 1 THEN Range(c.input_wires)
    ELSE DefinedBefore(c, i - 1) \cup {c.gates[i - 1].output_wire}

\* the range checks alone
check_wire_consistency_ranges(c) ==
    /\ \A k \in DOMAIN c.input_wires : c.input_wires[k] >= 0 /\ c.input_wires[k] < c.num_wires
    /\ \A i \in DOMAIN c.gates :
         /\ c.gates[i].input_wire1 >= 0 /\ c.gates[i].input_wire1 < c.num_wires
         /\ c.gates[i].input_wire2 # -1 =>
               c.gates[i].input_wire2 >= 0 /\ c.gates[i].input_wire2 < c.num_wires
         /\ c.gates[i].output_wire >= 0 /\ c.gates[i].output_wire < c.num_wires

check_wire_consistency(c) ==
    /\ \A k \in DOMAIN c.input_wires : c.input_wires[k] >= 0 /\ c.input_wires[k] < c.num_wires
    /\ \A i \in DOMAIN c.gates :
         LET gate == c.gates[i]
         IN /\ gate.input_wire1 >= 0 /\ gate.input_wire1 < c.num_wires
            /\ gate.input_wire1 \in DefinedBefore(c, i)
            /\ gate.input_wire2 # -1 =>
                  /\ gate.input_wire2 >= 0 /\ gate.input_wire2 < c.num_wires
                  /\ gate.input_wire2 \in DefinedBefore(c, i)
            /\ gate.output_wire >= 0 /\ gate.output_wire < c.num_wires

\* the check of the type alone
check_gate_validity_types(c) == \A i \in DOMAIN c.gates : c.gates[i].type \notin {"INPUT", "OUTPUT"}

check_gate_validity(c) ==
    \A i \in DOMAIN c.gates :
        LET gate == c.gates[i]
            is_unary == gate.type = "NOT"
        IN /\ gate.type \notin {"INPUT", "OUTPUT"}
           /\ ~(is_unary /\ gate.input_wire2 # -1)
           /\ ~(~is_unary /\ gate.input_wire2 = -1)

validate_circuit(c) ==
    /\ ~(c.num_inputs <= 0 \/ c.num_outputs <= 0 \/ c.num_gates <= 0)
    /\ Len(c.gates) = c.num_gates
    /\ Len(c.input_wires) = c.num_inputs
    /\ c.input_partition # <<>> => SeqSum(c.input_partition) = c.num_inputs
    /\ c.output_partition # <<>> => SeqSum(c.output_partition) = c.num_outputs
    /\ check_wire_consistency(c)
    /\ check_gate_validity(c)

\* one pass of the gate loop of parse_bristol_stream on a gate line;
\* threw: std::runtime_error
ParseGateLine(line, num_wires) ==
    LET nums == line.nums
        input_count == nums[1]
        output_count == nums[2]
        counted == Len(nums) >= 2 /\ input_count > 0 /\ output_count > 0
        wires == 2 + input_count + output_count
        \* with integers left over, the type token is one of them
        gate_type == IF Len(nums) > wires THEN [threw |-> TRUE, type |-> "INPUT"]
                     ELSE string_to_gate_type(normalize_gate_token(line.type))
        out_wire == nums[2 + input_count + 1]
        InRange(w) == w >= 0 /\ w < num_wires
        failed == [threw |-> TRUE, gate |-> Gate(0, 0, -1, "INPUT")]
    IN IF ~counted THEN failed
       ELSE IF Len(nums) < wires \/ gate_type.threw THEN failed
       ELSE IF output_count # 1 \/ ~InRange(out_wire) THEN failed
       ELSE IF input_count = 1
            THEN IF ~InRange(nums[3]) THEN failed
                 ELSE [threw |-> FALSE, gate |-> Gate(out_wire, nums[3], -1, gate_type.type)]
       ELSE IF input_count = 2
            THEN IF ~InRange(nums[3]) \/ ~InRange(nums[4]) THEN failed
                 ELSE [threw |-> FALSE, gate |-> Gate(out_wire, nums[3], nums[4], gate_type.type)]
       ELSE failed

\* GarbledCircuitManager::parse_bristol_stream; threw: std::runtime_error.
\* Lines after the num_gates-th gate line are not read.
parse_bristol_stream(text) ==
    LET total_inputs == SeqSum(text.inputs)
        total_outputs == SeqSum(text.outputs)
        read == [i \in 1..text.num_gates |-> ParseGateLine(text.gates[i], text.num_wires)]
        c == [num_inputs |-> total_inputs, num_outputs |-> total_outputs,
              num_gates |-> text.num_gates, num_wires |-> text.num_wires,
              gates |-> [i \in 1..text.num_gates |-> read[i].gate],
              input_wires |-> Interval(0, total_inputs),
              output_wires |-> Interval(text.num_wires - total_outputs, text.num_wires),
              input_partition |-> text.inputs, output_partition |-> text.outputs]
        rejected == [threw |-> TRUE, circuit |-> NoCircuit]
    IN IF text.num_gates <= 0 \/ text.num_wires <= 0 THEN rejected
       ELSE IF text.inputs = <<>> \/ \E k \in DOMAIN text.inputs : text.inputs[k] < 0 THEN rejected
       ELSE IF total_inputs <= 0 \/ total_inputs > text.num_wires THEN rejected
       ELSE IF text.outputs = <<>> \/ \E k \in DOMAIN text.outputs : text.outputs[k] < 0 THEN rejected
       ELSE IF total_outputs <= 0 \/ total_outputs > text.num_wires THEN rejected
       ELSE IF Len(text.gates) < text.num_gates THEN rejected
       ELSE IF \E i \in 1..text.num_gates : read[i].threw THEN rejected
       ELSE IF ~validate_circuit(c) THEN rejected
       ELSE [threw |-> FALSE, circuit |-> c]

\* a writer that prints the total for a partition
write_partition_total(partition, fallback) == <<fallback>>

\* GarbledCircuitManager::circuit_to_string: the lines the writer prints
write_partition(partition, fallback) == IF partition # <<>> THEN partition ELSE <<fallback>>

circuit_to_string(c) ==
    BristolText(c.num_gates, c.num_wires,
                write_partition(c.input_partition, c.num_inputs),
                write_partition(c.output_partition, c.num_outputs),
                [i \in DOMAIN c.gates |->
                    LET gate == c.gates[i]
                    IN IF gate.input_wire2 = -1
                       THEN GateLine(<<1, 1, gate.input_wire1, gate.output_wire>>, "INV")
                       ELSE GateLine(<<2, 1, gate.input_wire1, gate.input_wire2, gate.output_wire>>,
                                     IF gate.type = "NOT" THEN "INV" ELSE gate.type)])

\* ---------------------------------------------------------- wire labels
WIRE_LABEL_SIZE == 16
CIPHERTEXT_SIZE == 32

ZeroLabel == [id |-> 0, lsb |-> 0]
JunkLabel(b) == [id |-> -1, lsb |-> b]

\* the label RAND_bytes draws for bit b of wire w, with low bit r
RandomLabel(w, b, r) == [id |-> 2 * w + b + 1, lsb |-> r]

\* the k-th of the four labels garble_not_gate draws for its filler rows;
\* no party ever holds one, so their low bit is left 0
FillerLabel(gate_id, k) == [id |-> 0 - (2 + 4 * gate_id + k), lsb |-> 0]

perm_bit(lbl) == lbl.lsb

labels_equal(a, b) == a = b

\* std::map::operator[] on the label table: a missing wire reads as a
\* value-initialised pair
LabelsOf(wire_labels, w) ==
    IF w \in DOMAIN wire_labels THEN wire_labels[w] ELSE <<ZeroLabel, ZeroLabel>>

\* --------------------------------------------------------- crypto_utils
encrypt_label(output_label, key1, key2, gate_id) ==
    [m |-> output_label, k1 |-> key1, k2 |-> key2, gid |-> gate_id,
     size |-> CIPHERTEXT_SIZE]

\* a default-constructed std::vector<uint8_t>
EmptyCiphertext ==
    [m |-> ZeroLabel, k1 |-> ZeroLabel, k2 |-> ZeroLabel, gid |-> 0 - 1, size |-> 0]

\* jb: the low bit of the block AES yields when the key does not match.
\* The only failure is a plaintext shorter than a label; the zero block
\* behind the label is not looked at.
decrypt_label(ciphertext, key1, key2, gate_id, jb) ==
    IF ciphertext.size < WIRE_LABEL_SIZE
    THEN [threw |-> TRUE, label |-> ZeroLabel]
    ELSE [threw |-> FALSE,
          label |-> IF /\ ciphertext.k1 = key1
                       /\ ciphertext.k2 = key2
                       /\ ciphertext.gid = gate_id
                    THEN ciphertext.m
                    ELSE JunkLabel(jb)]

\* ---------------------------------------------------------------- Garbler
Rows == 0..3
Perms4 == {p \in [Rows -> Rows] : \A i, j \in Rows : p[i] = p[j] => i = j}
IdentityPerm == [i \in Rows |-> i]

\* the wires generate_wire_labels draws a pair for
LabelledWires(c) == Range(c.input_wires) \cup {c.gates[i].output_wire : i \in DOMAIN c.gates}

\* the low bits RAND_bytes can give the two labels of every wire
LowBits(c) == [LabelledWires(c) \X {0, 1} -> {0, 1}]
ZeroLowBits(c) == [x \in LabelledWires(c) \X {0, 1} |-> 0]

\* label generation that leaves the low bits as RAND_bytes gave them
generate_wire_labels_unmasked(c, use_pandp, lsbs) ==
    [w \in LabelledWires(c) |->
        << RandomLabel(w, 0, lsbs[<<w, 0>>]), RandomLabel(w, 1, lsbs[<<w, 1>>]) >>]

\* lsbs[<<w, b>>]: the low bit RAND_bytes gave the label of wire w for bit b
generate_wire_labels(c, use_pandp, lsbs) ==
    [w \in LabelledWires(c) |->
        << RandomLabel(w, 0, IF use_pandp THEN 0 ELSE lsbs[<<w, 0>>]),
           RandomLabel(w, 1, IF use_pandp THEN 1 ELSE lsbs[<<w, 1>>]) >>]

\* std::shuffle: row i of the result is row perm[i] of the table
permute_garbled_table(table, perm) == [i \in Rows |-> table[perm[i]]]

\* a table whose row for the bits (a, b) sits at index b * 2 + a
generate_garbled_table_transposed(gate, gate_id, out_labels, in1_labels, in2_labels, use_pandp, perm) ==
    LET OutLabel(a, b) ==
            IF gate_function(gate.type, a, b).value THEN out_labels[2] ELSE out_labels[1]
        ct0 == encrypt_label(OutLabel(FALSE, FALSE), in1_labels[1], in2_labels[1], gate_id)
        ct1 == encrypt_label(OutLabel(FALSE, TRUE), in1_labels[1], in2_labels[2], gate_id)
        ct2 == encrypt_label(OutLabel(TRUE, FALSE), in1_labels[2], in2_labels[1], gate_id)
        ct3 == encrypt_label(OutLabel(TRUE, TRUE), in1_labels[2], in2_labels[2], gate_id)
        table == [i \in Rows |-> CASE i = 0 -> ct0 [] i = 1 -> ct2 [] i = 2 -> ct1 [] OTHER -> ct3]
    IN IF use_pandp THEN table ELSE permute_garbled_table(table, perm)

generate_garbled_table(gate, gate_id, out_labels, in1_labels, in2_labels, use_pandp, perm) ==
    LET OutLabel(a, b) ==
            IF gate_function(gate.type, a, b).value THEN out_labels[2] ELSE out_labels[1]
        ct0 == encrypt_label(OutLabel(FALSE, FALSE), in1_labels[1], in2_labels[1], gate_id)
        ct1 == encrypt_label(OutLabel(FALSE, TRUE), in1_labels[1], in2_labels[2], gate_id)
        ct2 == encrypt_label(OutLabel(TRUE, FALSE), in1_labels[2], in2_labels[1], gate_id)
        ct3 == encrypt_label(OutLabel(TRUE, TRUE), in1_labels[2], in2_labels[2], gate_id)
        table == [i \in Rows |-> CASE i = 0 -> ct0 [] i = 1 -> ct1 [] i = 2 -> ct2 [] OTHER -> ct3]
        a0 == perm_bit(in1_labels[1])
        a1 == perm_bit(in1_labels[2])
        b0 == perm_bit(in2_labels[1])
        b1 == perm_bit(in2_labels[2])
        o0 == [i \in Rows |-> EmptyCiphertext]
        o1 == [o0 EXCEPT ![a0 * 2 + b0] = ct0]
        o2 == [o1 EXCEPT ![a0 * 2 + b1] = ct1]
        o3 == [o2 EXCEPT ![a1 * 2 + b0] = ct2]
        ordered == [o3 EXCEPT ![a1 * 2 + b1] = ct3]
    IN IF use_pandp THEN ordered ELSE permute_garbled_table(table, perm)

garble_not_gate(gate, gate_id, out_labels, in1_labels, use_pandp, perm) ==
    LET table == [i \in Rows |->
            CASE i = 0 -> encrypt_label(out_labels[2], in1_labels[1], ZeroLabel, gate_id)
              [] i = 1 -> encrypt_label(out_labels[1], in1_labels[2], ZeroLabel, gate_id)
              [] i = 2 -> encrypt_label(FillerLabel(gate_id, 0), FillerLabel(gate_id, 1),
                                        ZeroLabel, gate_id)
              [] OTHER -> encrypt_label(FillerLabel(gate_id, 2), FillerLabel(gate_id, 3),
                                        ZeroLabel, gate_id)]
    IN IF use_pandp THEN table ELSE permute_garbled_table(table, perm)

\* the gate types garble_gate has a case for
GarbledBinaryTypes == {"AND", "OR", "XOR", "NAND"}

\* wl is the Garbler's wire_labels member; operator[] adds the wires it misses
garble_gate(gate, gate_id, wl, use_pandp, perm) ==
    LET wl1 == MapPut(wl, gate.output_wire, LabelsOf(wl, gate.output_wire))
        wl2 == MapPut(wl1, gate.input_wire1, LabelsOf(wl1, gate.input_wire1))
        wl3 == MapPut(wl2, gate.input_wire2, LabelsOf(wl2, gate.input_wire2))
    IN CASE gate.type \in GarbledBinaryTypes ->
              [threw |-> FALSE, wl |-> wl3,
               table |-> generate_garbled_table(gate, gate_id, wl3[gate.output_wire],
                             wl3[gate.input_wire1], wl3[gate.input_wire2], use_pandp, perm)]
         [] gate.type = "NOT" ->
              [threw |-> FALSE, wl |-> wl2,
               table |-> garble_not_gate(gate, gate_id, wl2[gate.output_wire],
                             wl2[gate.input_wire1], use_pandp, perm)]
         [] OTHER -> [threw |-> TRUE, wl |-> wl, table |-> [i \in Rows |-> EmptyCiphertext]]

\* the one element of a singleton set; {F(x) : x \in {e}} computes e once
TheOne(S) == CHOOSE v \in S : TRUE

\* the loop of garble_circuit over the gates lo..hi, in order (the first
\* half, then the second); gate i has gate_id i-1
RECURSIVE GarbleGates(_, _, _, _, _, _, _)
GarbleGates(c, lo, hi, wl, tables, use_pandp, perms) ==
    IF lo > hi THEN [threw |-> FALSE, wl |-> wl, tables |-> tables]
    ELSE IF lo = hi
    THEN TheOne({IF r.threw THEN [threw |-> TRUE, wl |-> r.wl, tables |-> tables]
                 ELSE [threw |-> FALSE, wl |-> r.wl, tables |-> Append(tables, r.table)] :
                 r \in {garble_gate(c.gates[lo], lo - 1, wl, use_pandp, perms[lo])}})
    ELSE TheOne({IF first.threw THEN first
                 ELSE GarbleGates(c, ((lo + hi) \div 2) + 1, hi, first.wl, first.tables, use_pandp, perms) :
                 first \in {GarbleGates(c, lo, (lo + hi) \div 2, wl, tables, use_pandp, perms)}})

NoGarbledCircuit ==
    [circuit |-> MakeCircuit(0, 0, <<>>, <<>>), garbled_gates |-> <<>>,
     input_labels |-> EmptyMap, output_mapping |-> EmptyMap]

\* lsbs, perms: the random bytes and the shuffles this run draws
garble_circuit(c, use_pandp, lsbs, perms) ==
    LET labels == generate_wire_labels(c, use_pandp, lsbs)
        Garbled(gg) ==
            IF gg.threw THEN [threw |-> TRUE, gc |-> NoGarbledCircuit]
            ELSE [threw |-> FALSE,
                  gc |-> [circuit |-> c, garbled_gates |-> gg.tables,
                          input_labels |-> labels,
                          output_mapping |->
                              [w \in {x \in Range(c.output_wires) : x \in DOMAIN gg.wl} |-> gg.wl[w][1]]]]
    IN TheOne({Garbled(gg) : gg \in {GarbleGates(c, 1, Len(c.gates), labels, <<>>, use_pandp, perms)}})

\* labels: the selected labels; threw: GarblerException
RECURSIVE EncodeFrom(_, _, _, _)
EncodeFrom(gc, inputs, wire_indices, i) ==
    IF i > Len(inputs) THEN [threw |-> FALSE, labels |-> <<>>]
    ELSE IF wire_indices[i] \notin DOMAIN gc.input_labels
         THEN [threw |-> TRUE, labels |-> <<>>]
         ELSE LET rest == EncodeFrom(gc, inputs, wire_indices, i + 1)
                  pair == gc.input_labels[wire_indices[i]]
              IN [threw |-> rest.threw,
                  labels |-> IF rest.threw THEN <<>>
                             ELSE <<IF inputs[i] THEN pair[2] ELSE pair[1]>> \o rest.labels]

encode_inputs(gc, inputs, wire_indices) ==
    IF Len(inputs) # Len(wire_indices) THEN [threw |-> TRUE, labels |-> <<>>]
    ELSE EncodeFrom(gc, inputs, wire_indices, 1)

decode_outputs(gc, output_labels) ==
    LET n == Min(Len(output_labels), Len(gc.circuit.output_wires))
    IN IF \E i \in 1..n : gc.circuit.output_wires[i] \notin DOMAIN gc.output_mapping
       THEN [threw |-> TRUE, bits |-> <<>>]
       ELSE [threw |-> FALSE,
             bits |-> [i \in 1..n |->
                 ~labels_equal(output_labels[i], gc.output_mapping[gc.circuit.output_wires[i]])]]

get_ot_input_pairs(gc, wire_indices) ==
    IF \E i \in DOMAIN wire_indices : wire_indices[i] \notin DOMAIN gc.input_labels
    THEN [threw |-> TRUE, pairs |-> <<>>]
    ELSE [threw |-> FALSE, pairs |-> [i \in DOMAIN wire_indices |-> gc.input_labels[wire_indices[i]]]]

\* -------------------------------------------------------------- Evaluator
\* the trial loop of the legacy branch: the first of rows i..3 whose
\* decryption does not throw
RECURSIVE TryRows(_, _, _, _, _, _)
TryRows(garbled_gate, i, key1, key2, gate_id, jb) ==
    IF i > 3 THEN [threw |-> TRUE, label |-> ZeroLabel]
    ELSE LET d == decrypt_label(garbled_gate[i], key1, key2, gate_id, jb)
         IN IF d.threw THEN TryRows(garbled_gate, i + 1, key1, key2, gate_id, jb) ELSE d

\* an Evaluator that indexes the table by perm(k2) * 2 + perm(k1)
evaluate_gate_swapped(garbled_gate, input1_label, input2_label, gate_id, use_pandp, jb) ==
    IF use_pandp
    THEN decrypt_label(garbled_gate[perm_bit(input2_label) * 2 + perm_bit(input1_label)],
                       input1_label, input2_label, gate_id, jb)
    ELSE TryRows(garbled_gate, 0, input1_label, input2_label, gate_id, jb)

\* threw: EvaluatorException
evaluate_gate(garbled_gate, input1_label, input2_label, gate_id, use_pandp, jb) ==
    IF use_pandp
    THEN decrypt_label(garbled_gate[perm_bit(input1_label) * 2 + perm_bit(input2_label)],
                       input1_label, input2_label, gate_id, jb)
    ELSE TryRows(garbled_gate, 0, input1_label, input2_label, gate_id, jb)

evaluate_unary_gate(garbled_gate, input_label, gate_id, use_pandp, jb) ==
    IF use_pandp
    THEN decrypt_label(garbled_gate[perm_bit(input_label)], input_label, ZeroLabel, gate_id, jb)
    ELSE TryRows(garbled_gate, 0, input_label, ZeroLabel, gate_id, jb)

\* the gate loop of evaluate_circuit from gate i on; wv is wire_values
RECURSIVE EvalGates(_, _, _, _, _)
EvalGates(gc, i, wv, use_pandp, jbs) ==
    IF i > Len(gc.circuit.gates) THEN [threw |-> FALSE, wv |-> wv]
    ELSE LET gate == gc.circuit.gates[i]
             r == IF gate.input_wire2 = -1
                  THEN IF gate.input_wire1 \notin DOMAIN wv
                       THEN [threw |-> TRUE, label |-> ZeroLabel]
                       ELSE evaluate_unary_gate(gc.garbled_gates[i], wv[gate.input_wire1],
                                                i - 1, use_pandp, jbs[i])
                  ELSE IF gate.input_wire1 \notin DOMAIN wv \/ gate.input_wire2 \notin DOMAIN wv
                       THEN [threw |-> TRUE, label |-> ZeroLabel]
                       ELSE evaluate_gate(gc.garbled_gates[i], wv[gate.input_wire1],
                                          wv[gate.input_wire2], i - 1, use_pandp, jbs[i])
         IN IF r.threw THEN [threw |-> TRUE, wv |-> wv]
            ELSE EvalGates(gc, i + 1, MapPut(wv, gate.output_wire, r.label), use_pandp, jbs)

\* wire_values after the loop that stores the input labels
RECURSIVE StoreInputs(_, _, _, _)
StoreInputs(wires, values, i, wv) ==
    IF i > Len(values) THEN wv
    ELSE StoreInputs(wires, values, i + 1, MapPut(wv, wires[i], values[i]))

\* jbs[i]: the low bit of the block gate i decrypts to under a wrong key
evaluate_circuit(gc, input_labels, use_pandp, jbs) ==
    IF Len(input_labels) # Len(gc.circuit.input_wires)
    THEN [threw |-> TRUE, labels |-> <<>>]
    ELSE LET wv0 == StoreInputs(gc.circuit.input_wires, input_labels, 1, EmptyMap)
             r == EvalGates(gc, 1, wv0, use_pandp, jbs)
         IN IF r.threw \/ \E i \in DOMAIN gc.circuit.output_wires :
                              gc.circuit.output_wires[i] \notin DOMAIN r.wv
            THEN [threw |-> TRUE, labels |-> <<>>]
            ELSE [threw |-> FALSE,
                  labels |-> [i \in DOMAIN gc.circuit.output_wires |->
                                 r.wv[gc.circuit.output_wires[i]]]]

JunkBits(n) == [1..n -> {0, 1}]

\* ----------------------------------------------------------- CircuitUtils
\* std::map<int,bool>::operator[]: a wire never written reads false
ValueOf(wv, w) == IF w \in DOMAIN wv THEN wv[w] ELSE FALSE

RECURSIVE PlainGates(_, _, _)
PlainGates(c, i, wv) ==
    IF i > Len(c.gates) THEN [threw |-> FALSE, wv |-> wv]
    ELSE LET gate == c.gates[i]
             r == IF gate.input_wire2 = -1
                  THEN gate_function(gate.type, ValueOf(wv, gate.input_wire1), FALSE)
                  ELSE gate_function(gate.type, ValueOf(wv, gate.input_wire1),
                                     ValueOf(wv, gate.input_wire2))
         IN IF r.threw THEN [threw |-> TRUE, wv |-> wv]
            ELSE PlainGates(c, i + 1, MapPut(wv, gate.output_wire, r.value))

evaluate_plaintext(c, inputs) ==
    IF Len(inputs) # c.num_inputs THEN [threw |-> TRUE, bits |-> <<>>]
    ELSE LET r == PlainGates(c, 1, StoreInputs(c.input_wires, inputs, 1, EmptyMap))
         IN IF r.threw THEN [threw |-> TRUE, bits |-> <<>>]
            ELSE [threw |-> FALSE,
                  bits |-> [i \in DOMAIN c.output_wires |-> ValueOf(r.wv, c.output_wires[i])]]

BitVectors(n) == [1..n -> BOOLEAN]

\* ------------------------------------------------------- wire serialization
MAX_MESSAGE_SIZE == 65536
HEADER_SIZE == 5

MessageType ==
    {"HELLO", "CIRCUIT", "INPUT_LABELS", "OT_REQUEST", "OT_RESPONSE", "RESULT", "ERROR", "GOODBYE"}

\* static_cast<uint8_t>(gate.type) and back
GateTypeCode(t) ==
    CASE t = "AND" -> 0 [] t = "OR" -> 1 [] t = "XOR" -> 2 [] t = "NAND" -> 3
      [] t = "NOR" -> 4 [] t = "NOT" -> 5 [] t = "INPUT" -> 6 [] OTHER -> 7

GateTypeOfCode(n) ==
    CASE n = 0 -> "AND" [] n = 1 -> "OR" [] n = 2 -> "XOR" [] n = 3 -> "NAND"
      [] n = 4 -> "NOR" [] n = 5 -> "NOT" [] n = 6 -> "INPUT" [] OTHER -> "OUTPUT"

\* a CIRCUIT payload with the output decoding table behind the ciphertexts
serialize_garbled_circuit_with_mapping(gc) ==
    [num_gates |-> gc.circuit.num_gates,
     num_inputs |-> gc.circuit.num_inputs,
     num_outputs |-> gc.circuit.num_outputs,
     input_wires |-> gc.circuit.input_wires,
     output_wires |-> gc.circuit.output_wires,
     gates |-> [i \in DOMAIN gc.circuit.gates |->
                  [input_wire1 |-> gc.circuit.gates[i].input_wire1,
                   input_wire2 |-> gc.circuit.gates[i].input_wire2,
                   output_wire |-> gc.circuit.gates[i].output_wire,
                   gate_type |-> GateTypeCode(gc.circuit.gates[i].type)]],
     ciphertexts |-> gc.garbled_gates,
     output_mapping |-> gc.output_mapping,
     bytes |-> 12 + 4 * Len(gc.circuit.input_wires) + 4 * Len(gc.circuit.output_wires)
                  + 13 * Len(gc.circuit.gates) + 4 * CIPHERTEXT_SIZE * Len(gc.garbled_gates)
                  + (4 + WIRE_LABEL_SIZE) * Cardinality(DOMAIN gc.output_mapping)]

\* the payload of a CIRCUIT message: the fields written, in order, and the
\* number of bytes they take
serialize_garbled_circuit(gc) ==
    [num_gates |-> gc.circuit.num_gates,
     num_inputs |-> gc.circuit.num_inputs,
     num_outputs |-> gc.circuit.num_outputs,
     input_wires |-> gc.circuit.input_wires,
     output_wires |-> gc.circuit.output_wires,
     gates |-> [i \in DOMAIN gc.circuit.gates |->
                  [input_wire1 |-> gc.circuit.gates[i].input_wire1,
                   input_wire2 |-> gc.circuit.gates[i].input_wire2,
                   output_wire |-> gc.circuit.gates[i].output_wire,
                   gate_type |-> GateTypeCode(gc.circuit.gates[i].type)]],
     ciphertexts |-> gc.garbled_gates,
     bytes |-> 12 + 4 * Len(gc.circuit.input_wires) + 4 * Len(gc.circuit.output_wires)
                  + 13 * Len(gc.circuit.gates) + 4 * CIPHERTEXT_SIZE * Len(gc.garbled_gates)]

\* the GarbledCircuit the Evaluator rebuilds: num_wires, the partitions,
\* input_labels and output_mapping are not on the wire
deserialize_garbled_circuit(data) ==
    IF data.bytes < 12
          \/ Len(data.input_wires) < data.num_inputs
          \/ Len(data.output_wires) < data.num_outputs
          \/ Len(data.gates) < data.num_gates
          \/ Len(data.ciphertexts) < data.num_gates
    THEN [threw |-> TRUE, gc |-> NoGarbledCircuit]
    ELSE [threw |-> FALSE,
          gc |-> [circuit |->
                     [num_inputs |-> data.num_inputs, num_outputs |-> data.num_outputs,
                      num_gates |-> data.num_gates, num_wires |-> 0,
                      gates |-> [i \in 1..data.num_gates |->
                                   Gate(data.gates[i].output_wire, data.gates[i].input_wire1,
                                        data.gates[i].input_wire2,
                                        GateTypeOfCode(data.gates[i].gate_type))],
                      input_wires |-> SubSeq(data.input_wires, 1, data.num_inputs),
                      output_wires |-> SubSeq(data.output_wires, 1, data.num_outputs),
                      input_partition |-> <<>>, output_partition |-> <<>>],
                  garbled_gates |-> SubSeq(data.ciphertexts, 1, data.num_gates),
                  input_labels |-> EmptyMap, output_mapping |-> EmptyMap]]

\* a CIRCUIT payload too short to hold the three counts
EmptyCircuitData ==
    [num_gates |-> 0, num_inputs |-> 0, num_outputs |-> 0, input_wires |-> <<>>,
     output_wires |-> <<>>, gates |-> <<>>, ciphertexts |-> <<>>, bytes |-> 0]

\* ------------------------------------------------------------ byte stream
\* The stream from one party to the other is the sequence of the chunks
\* written and not yet read: a framed message (5 header bytes and the
\* payload), the 16 raw bytes of a label, or what is left of a chunk whose
\* first bytes were read as something else.
Frame(t, d, payload_size) ==
    [kind |-> "msg", type |-> t, data |-> d, size |-> payload_size,
     label |-> ZeroLabel, len |-> HEADER_SIZE + payload_size]
RawLabel(l) ==
    [kind |-> "raw", type |-> "", data |-> <<>>, size |-> 0, label |-> l,
     len |-> WIRE_LABEL_SIZE]
Fragment(n) ==
    [kind |-> "frag", type |-> "", data |-> <<>>, size |-> 0, label |-> ZeroLabel, len |-> n]

RECURSIVE BytesIn(_)
BytesIn(ch) == IF ch = <<>> THEN 0 ELSE Head(ch).len + BytesIn(Tail(ch))

RECURSIVE DropBytes(_, _)
DropBytes(ch, n) ==
    IF n = 0 \/ ch = <<>> THEN ch
    ELSE IF Head(ch).len <= n THEN DropBytes(Tail(ch), n - Head(ch).len)
         ELSE <<Fragment(Head(ch).len - n)>> \o Tail(ch)

\* SocketUtils::receive_message on a stream that holds at least one chunk:
\* a header read from bytes that are no header carries a random size, taken
\* to exceed MAX_MESSAGE_SIZE
\* a receiver that also turns away a payload of MAX_MESSAGE_SIZE bytes
receive_message_below_max(ch) ==
    IF Head(ch).kind # "msg" \/ Head(ch).size >= MAX_MESSAGE_SIZE
    THEN [threw |-> TRUE, msg |-> Head(ch), rest |-> ch]
    ELSE [threw |-> FALSE, msg |-> Head(ch), rest |-> Tail(ch)]

receive_message(ch) ==
    IF Head(ch).kind # "msg" \/ Head(ch).size > MAX_MESSAGE_SIZE
    THEN [threw |-> TRUE, msg |-> Head(ch), rest |-> ch]
    ELSE [threw |-> FALSE, msg |-> Head(ch), rest |-> Tail(ch)]

\* SocketUtils::receive_wire_label, count times, on a stream that holds at
\* least 16 * count bytes; jb is the low bit of a label read from bytes
\* that are not one label
RECURSIVE ReceiveLabels(_, _, _)
ReceiveLabels(ch, count, jb) ==
    IF count = 0 THEN [labels |-> <<>>, rest |-> ch]
    ELSE LET whole == Head(ch).kind = "raw"
             l == IF whole THEN Head(ch).label ELSE JunkLabel(jb)
             r == ReceiveLabels(IF whole THEN Tail(ch) ELSE DropBytes(ch, WIRE_LABEL_SIZE),
                                count - 1, jb)
         IN [labels |-> <<l>> \o r.labels, rest |-> r.rest]

\* ------------------------------------------------------------- ot_handler
\* SimpleOT::send_wire_label_ot for every pair: label0 then label1
RECURSIVE send_ot(_)
send_ot(pairs) ==
    IF pairs = <<>> THEN <<>>
    ELSE <<RawLabel(Head(pairs)[1]), RawLabel(Head(pairs)[2])>> \o send_ot(Tail(pairs))

\* a receiver that keeps the first label of every pair
receive_ot_first_label(choices, ch, jb) ==
    LET r == ReceiveLabels(ch, 2 * Len(choices), jb)
    IN [labels |-> [i \in DOMAIN choices |-> r.labels[2 * i - 1]],
        seen |-> r.labels, rest |-> r.rest]

\* SimpleOT::receive_wire_label_ot for every choice: of the two labels
\* read, the one the choice bit names
receive_ot(choices, ch, jb) ==
    LET r == ReceiveLabels(ch, 2 * Len(choices), jb)
    IN [labels |-> [i \in DOMAIN choices |->
                       IF choices[i] THEN r.labels[2 * i] ELSE r.labels[2 * i - 1]],
        seen |-> r.labels, rest |-> r.rest]

\* ------------------------------------------------------- protocol messages
HelloFrame(name, name_size) == Frame("HELLO", name, name_size)
CircuitFrame(gc) ==
    LET d == serialize_garbled_circuit(gc) IN Frame("CIRCUIT", d, d.bytes)
InputLabelsFrame(labels) ==
    Frame("INPUT_LABELS", [count |-> Len(labels), labels |-> labels],
          4 + WIRE_LABEL_SIZE * Len(labels))
ResultFrame(labels) == Frame("RESULT", labels, WIRE_LABEL_SIZE * Len(labels))
GoodbyeFrame == Frame("GOODBYE", <<>>, 0)

\* a receiver that takes whatever count the message carries
parse_input_labels_any_count(msg, expected_count) ==
    IF msg.size < 4 \/ msg.size < 4 + WIRE_LABEL_SIZE * msg.data.count
    THEN [threw |-> TRUE, labels |-> <<>>]
    ELSE [threw |-> FALSE, labels |-> SubSeq(msg.data.labels, 1, msg.data.count)]

\* ProtocolManager::receive_input_labels past the type check
parse_input_labels(msg, expected_count) ==
    IF msg.size < 4 THEN [threw |-> TRUE, labels |-> <<>>]
    ELSE IF msg.data.count # expected_count THEN [threw |-> TRUE, labels |-> <<>>]
    ELSE IF msg.size < 4 + WIRE_LABEL_SIZE * msg.data.count
         THEN [threw |-> TRUE, labels |-> <<>>]
         ELSE [threw |-> FALSE, labels |-> SubSeq(msg.data.labels, 1, msg.data.count)]

\* the loop of GarblerProgram::execute_protocol that cuts the RESULT
\* payload into labels
parse_result(msg) == IF msg.size = 0 THEN <<>> ELSE SubSeq(msg.data, 1, msg.size \div WIRE_LABEL_SIZE)

\* the split of the input wires both execute_protocol compute; own is the
\* number of bits the party holds
\* threw: std::invalid_argument
InputSplit(c, own, is_garbler) ==
    LET part == c.input_partition
        eg == IF part # <<>> THEN part[1]
              ELSE IF is_garbler THEN own ELSE c.num_inputs - own
        ee == IF part # <<>> THEN SeqSum(Tail(part))
              ELSE IF is_garbler THEN c.num_inputs - own ELSE own
    IN [threw |-> \/ part = <<>> /\ c.num_inputs < own
                  \/ c.num_inputs # eg + ee
                  \/ own # (IF is_garbler THEN eg ELSE ee),
        garbler |-> eg, evaluator |-> ee]

\* ------------------------------------------------------------------ state
VARIABLES
    circuit,          \* the Circuit the Garbler loaded
    g_use_pandp,      \* Garbler::use_pandp_
    e_use_pandp,      \* Evaluator::use_pandp_
    garbled_circuit,  \* the GarbledCircuit garble_circuit returned
    tpc,              \* position in CircuitUtils::test_circuit_correctness
    inputs,           \* its local inputs
    input_labels,     \* its local input_labels
    output_labels,    \* its local output_labels
    garbled_result,   \* its local garbled_result
    garbler_inputs,   \* the bits GarblerProgram::parse_inputs returned
    evaluator_inputs, \* the bits EvaluatorProgram::parse_inputs returned
    gpc,              \* position of GarblerProgram::run
    epc,              \* position of EvaluatorProgram::run
    g2e,              \* bytes written by the Garbler, not yet read
    e2g,              \* bytes written by the Evaluator, not yet read
    e_gc,             \* EvaluatorProgram's garbled_circuit
    all_input_labels, \* EvaluatorProgram's all_input_labels
    e_output_labels,  \* EvaluatorProgram's output_labels
    final_result,     \* GarblerProgram's final_result
    events,           \* what the parties did on the sockets, in order
    text,             \* the Bristol text parse_circuit is given
    parsed,           \* what parse_circuit returned
    ppc               \* position of a circuit_to_string / parse_circuit run

bvars == <<text, parsed, ppc>>
cvars == <<circuit, g_use_pandp, e_use_pandp, bvars>>
tvars == <<tpc, inputs, input_labels, output_labels, garbled_result>>
ivars == <<garbler_inputs, evaluator_inputs>>
gvars == <<gpc, final_result>>
evars == <<epc, e_gc, all_input_labels, e_output_labels>>
pvars == <<ivars, gvars, evars, g2e, e2g, events>>
vars == <<circuit, g_use_pandp, e_use_pandp, garbled_circuit, tvars, pvars, bvars>>

\* no parse_circuit run
NoText == BristolText(0, 0, <<>>, <<>>, <<>>)
NotParsed == [threw |-> FALSE, circuit |-> NoCircuit]
ParserIdle == text = NoText /\ parsed = NotParsed /\ ppc = "off"

\* --------------------------------- CircuitUtils::test_circuit_correctness
\* the garble - encode - evaluate - decode pipeline, run for a Garbler and an
\* Evaluator constructed with the flags g_use_pandp and e_use_pandp
TestInit(maxGates, flags) ==
    /\ circuit \in Circuits(maxGates)
    /\ g_use_pandp \in flags
    /\ e_use_pandp \in flags
    /\ garbled_circuit = NoGarbledCircuit
    /\ tpc = "start"
    /\ inputs = <<>>
    /\ input_labels = <<>>
    /\ output_labels = <<>>
    /\ garbled_result = <<>>
    /\ garbler_inputs = <<>> /\ evaluator_inputs = <<>>
    /\ gpc = "off" /\ epc = "off"
    /\ g2e = <<>> /\ e2g = <<>>
    /\ e_gc = NoGarbledCircuit
    /\ all_input_labels = <<>> /\ e_output_labels = <<>> /\ final_result = <<>>
    /\ events = <<>>
    /\ ParserIdle

\* garbler.garble_circuit(circuit)
TestGarble ==
    /\ tpc = "start"
    /\ \E lsbs \in IF g_use_pandp THEN {ZeroLowBits(circuit)} ELSE LowBits(circuit),
          perms \in IF g_use_pandp THEN {[i \in DOMAIN circuit.gates |-> IdentityPerm]}
                    ELSE [DOMAIN circuit.gates -> Perms4] :
          LET r == garble_circuit(circuit, g_use_pandp, lsbs, perms)
          IN /\ garbled_circuit' = r.gc
             /\ tpc' = IF r.threw THEN "garble_failed" ELSE "garbled"
    /\ UNCHANGED <<cvars, inputs, input_labels, output_labels, garbled_result, pvars>>

\* generate_random_inputs, then garbler.encode_inputs over all input wires
TestEncode ==
    /\ tpc = "garbled"
    /\ \E bits \in BitVectors(circuit.num_inputs) :
          LET r == encode_inputs(garbled_circuit, bits, circuit.input_wires)
          IN /\ inputs' = bits
             /\ input_labels' = r.labels
             /\ tpc' = IF r.threw THEN "encode_failed" ELSE "encoded"
    /\ UNCHANGED <<cvars, garbled_circuit, output_labels, garbled_result, pvars>>

\* evaluator.evaluate_circuit(garbled_circuit, input_labels)
TestEvaluate ==
    /\ tpc = "encoded"
    /\ \E jbs \in JunkBits(Len(garbled_circuit.circuit.gates)) :
          LET r == evaluate_circuit(garbled_circuit, input_labels, e_use_pandp, jbs)
          IN /\ output_labels' = r.labels
             /\ tpc' = IF r.threw THEN "evaluate_failed" ELSE "evaluated"
    /\ UNCHANGED <<cvars, garbled_circuit, inputs, input_labels, garbled_result, pvars>>

\* garbler.decode_outputs(garbled_circuit, output_labels)
TestDecode ==
    /\ tpc = "evaluated"
    /\ LET r == decode_outputs(garbled_circuit, output_labels)
       IN /\ garbled_result' = r.bits
          /\ tpc' = IF r.threw THEN "decode_failed" ELSE "decoded"
    /\ UNCHANGED <<cvars, garbled_circuit, inputs, input_labels, output_labels, pvars>>

\* the next iteration of the test loop
TestAgain ==
    /\ tpc = "decoded"
    /\ tpc' = "garbled"
    /\ inputs' = <<>>
    /\ input_labels' = <<>>
    /\ output_labels' = <<>>
    /\ garbled_result' = <<>>
    /\ UNCHANGED <<cvars, garbled_circuit, pvars>>

TestNext == TestGarble \/ TestEncode \/ TestEvaluate \/ TestDecode \/ TestAgain

\* both parties with point-and-permute
SpecPandp == TestInit(MaxGates, {TRUE}) /\ [][TestNext]_vars

\* every combination of the two flags
SpecGC == TestInit(MaxTableGates, BOOLEAN) /\ [][TestNext]_vars

\* ------------------------------------------ parse_circuit and the writer
\* The texts parse_circuit is run on.  Gate lines of the right shape: an
\* INV over any two indices up to num_wires (one past the range), an AND
\* whose second input is its first or the last wire.
ShapedLines(nw) ==
    {GateLine(<<1, 1, a, o>>, "INV") : a \in 0..nw, o \in 0..nw}
      \cup UNION {{GateLine(<<2, 1, a, b, o>>, "AND") : b \in {a, nw - 1}, o \in 0..(nw - 1)} :
                  a \in 0..(nw - 1)}

\* lines from wire 0 to wire 1 with every type token and arity
TypeTokens ==
    {"AND", "OR", "XOR", "NAND", "NOR", "NOT", "INV", "INPUT", "OUTPUT",
     "MUX", "", "and", "inv", "Xor", "input"}

OddLines ==
    {GateLine(<<1, 1, 0, 1>>, t) : t \in TypeTokens}
      \cup {GateLine(<<2, 1, 0, 0, 1>>, t) : t \in TypeTokens}
      \cup {GateLine(<<3, 1, 0, 0, 0, 1>>, t) : t \in {"AND", "NOT"}}
      \cup {GateLine(<<1, 2, 0, 1, 1>>, t) : t \in {"AND", "NOT"}}
      \cup {GateLine(<<2, 2, 0, 0, 1, 1>>, t) : t \in {"AND", "NOT"}}
      \cup {GateLine(nums, "NOT") :
               nums \in {<<0, 1, 1>>, <<1, 0, 0>>, <<1, 1, 0>>, <<1, 1, 0, 1, 1>>, <<1>>, <<-1, 1, 1>>}}
      \cup {GateLine(nums, "AND") : nums \in {<<2, 1, 0, 0>>, <<2, 1, 0, 0, 1, 1>>}}

RECURSIVE LineSeqs(_, _)
LineSeqs(lines, k) ==
    IF k = 0 THEN {<<>>}
    ELSE {Append(ls, x) : ls \in LineSeqs(lines, k - 1), x \in lines}

\* one input line and one output wire, every sequence of shaped gate lines
ShapedTexts ==
    UNION {{BristolText(Len(ls), nw, ins, <<1>>, ls) :
               ins \in {<<1>>, <<1, 1>>}, ls \in LineSeqs(ShapedLines(nw), k)} :
           nw \in 2..MaxWires, k \in 1..MaxLines}

\* an odd line alone, or after an INV from wire 0 to wire 1
OddTexts ==
    {BristolText(1, 2, <<1>>, <<1>>, <<x>>) : x \in OddLines}
      \cup {BristolText(2, 2, <<1>>, <<1>>, <<GateLine(<<1, 1, 0, 1>>, "INV"), x>>) : x \in OddLines}

\* every header and partition line over a few gate lines
HeaderTexts ==
    {BristolText(ng, nw, ins, outs, ls) :
        ng \in 0..MaxLines, nw \in 0..2,
        ins \in {<<1>>, <<0>>, <<-1, 2>>, <<3>>, <<0, 1>>, <<2>>},
        outs \in {<<1>>, <<0>>, <<-1, 2>>, <<3>>, <<1, 1>>},
        ls \in {<<>>, <<GateLine(<<1, 1, 0, 1>>, "INV")>>,
                <<GateLine(<<1, 1, 0, 1>>, "INV"), GateLine(<<2, 1, 0, 1, 1>>, "AND")>>}}

BristolTexts == ShapedTexts \cup OddTexts \cup HeaderTexts

\* the Circuit structs circuit_to_string is run on: the parser's form of a
\* circuit, and the same with a partition left empty or negative, the
\* input wires reversed, the output wires elsewhere
Reverse(q) == [i \in DOMAIN q |-> q[Len(q) + 1 - i]]

StructVariants(c) ==
    {c,
     [c EXCEPT !.input_partition = <<>>],
     [c EXCEPT !.output_partition = <<>>],
     [c EXCEPT !.input_partition = <<c.num_inputs + 1, -1>>],
     [c EXCEPT !.input_wires = Reverse(c.input_wires)],
     [c EXCEPT !.output_wires = Interval(0, c.num_outputs)],
     [c EXCEPT !.gates[1].input_wire2 = -1]}

StructCircuits ==
    {c \in UNION {StructVariants(b) : b \in Circuits(MaxTableGates)} : validate_circuit(c)}

ParseInit ==
    /\ \/ ppc = "parse" /\ text \in BristolTexts /\ circuit = NoCircuit
       \/ ppc = "write" /\ text = NoText /\ circuit \in StructCircuits
    /\ parsed = NotParsed
    /\ g_use_pandp = TRUE /\ e_use_pandp = TRUE
    /\ garbled_circuit = NoGarbledCircuit
    /\ tpc = "off"
    /\ inputs = <<>> /\ input_labels = <<>> /\ output_labels = <<>> /\ garbled_result = <<>>
    /\ garbler_inputs = <<>> /\ evaluator_inputs = <<>>
    /\ gpc = "off" /\ epc = "off"
    /\ g2e = <<>> /\ e2g = <<>>
    /\ e_gc = NoGarbledCircuit
    /\ all_input_labels = <<>> /\ e_output_labels = <<>> /\ final_result = <<>>
    /\ events = <<>>

\* parse_circuit(text)
ParseCircuit ==
    /\ ppc \in {"parse", "written"}
    /\ parsed' = parse_bristol_stream(text)
    /\ ppc' = IF ppc = "written" THEN "reparsed"
              ELSE IF parsed'.threw THEN "rejected" ELSE "accepted"
    /\ UNCHANGED <<circuit, text, g_use_pandp, e_use_pandp, garbled_circuit, tvars, pvars>>

\* circuit_to_string(circuit)
WriteCircuit ==
    /\ ppc = "write"
    /\ text' = circuit_to_string(circuit)
    /\ ppc' = "written"
    /\ UNCHANGED <<circuit, parsed, g_use_pandp, e_use_pandp, garbled_circuit, tvars, pvars>>

\* circuit_to_string on the circuit parse_circuit returned
WriteParsed ==
    /\ ppc = "accepted"
    /\ circuit' = parsed.circuit
    /\ text' = circuit_to_string(parsed.circuit)
    /\ ppc' = "written"
    /\ UNCHANGED <<parsed, g_use_pandp, e_use_pandp, garbled_circuit, tvars, pvars>>

ParseNext == ParseCircuit \/ WriteCircuit \/ WriteParsed

ParseSpec == ParseInit /\ [][ParseNext]_vars

\* ------------------------------------------- garble_circuit, decode_outputs
\* The Garbler alone: garble_circuit on a circuit parse_circuit returned,
\* then decode_outputs on a vector of labels that came from outside.
\* Shuffled tables for the circuits of two wires and one input.
AcceptedCircuits ==
    {parse_bristol_stream(t).circuit : t \in {x \in ShapedTexts : ~parse_bristol_stream(x).threw}}

DecodeInit ==
    /\ circuit \in AcceptedCircuits
    /\ g_use_pandp \in BOOLEAN
    /\ ~g_use_pandp => (circuit.num_wires = 2 /\ circuit.num_inputs = 1 /\ circuit.num_gates <= MaxTableGates)
    /\ e_use_pandp = g_use_pandp
    /\ garbled_circuit = NoGarbledCircuit
    /\ tpc = "start"
    /\ inputs = <<>> /\ input_labels = <<>> /\ output_labels = <<>> /\ garbled_result = <<>>
    /\ garbler_inputs = <<>> /\ evaluator_inputs = <<>>
    /\ gpc = "off" /\ epc = "off"
    /\ g2e = <<>> /\ e2g = <<>>
    /\ e_gc = NoGarbledCircuit
    /\ all_input_labels = <<>> /\ e_output_labels = <<>> /\ final_result = <<>>
    /\ events = <<>>
    /\ ParserIdle

\* the labels that may arrive for output wire w: its two labels, if it has
\* any, the all-zero label and a label that is nobody's
ReceivedLabels(w) ==
    {ZeroLabel, JunkLabel(0)}
      \cup (IF w \in DOMAIN garbled_circuit.input_labels
            THEN {garbled_circuit.input_labels[w][1], garbled_circuit.input_labels[w][2]}
            ELSE {})

\* up to one label more than the circuit has output wires
ReceivedVectors ==
    LET ow == garbled_circuit.circuit.output_wires
    IN UNION {{v \in [1..k -> UNION {ReceivedLabels(ow[i]) : i \in DOMAIN ow}] :
                  \A i \in 1..k : v[i] \in ReceivedLabels(ow[Min(i, Len(ow))])} :
              k \in 0..(Len(ow) + 1)}

\* garbler.decode_outputs(garbled_circuit, labels)
DecodeReceived ==
    /\ tpc = "garbled"
    /\ \E labels \in ReceivedVectors :
          LET r == decode_outputs(garbled_circuit, labels)
          IN /\ output_labels' = labels
             /\ garbled_result' = r.bits
             /\ tpc' = IF r.threw THEN "decode_failed" ELSE "decoded"
    /\ UNCHANGED <<cvars, garbled_circuit, inputs, input_labels, pvars>>

DecodeNext == TestGarble \/ DecodeReceived \/ TestAgain

DecodeSpec == DecodeInit /\ [][DecodeNext]_vars

\* ------------------------------------------------ the two-party programs
\* One session: bin/garbler and bin/evaluator started on one circuit, each
\* with its own input bits.  The Garbler garbles with point-and-permute, so
\* that the tables are a function of the circuit; the messages and the
\* control flow of the session do not read the tables.
SessionTypes == {"AND", "XOR", "NOR"}

SessionGates(n) ==
    {x \in GateChoices(n, 1) : x.type = "NOT" \/ x.type \in SessionTypes}

\* the second header line of the circuit file: one party, or two
Partitions(n) == {<<n>>} \cup {<<p, n - p>> : p \in 0..n}

SessionCircuits ==
    UNION {{MakeCircuit(n, 1, <<x>>, ip) : x \in SessionGates(n), ip \in Partitions(n)} :
             n \in 1..MaxInputs}

InputVectors(maxLen) == UNION {BitVectors(k) : k \in 0..maxLen}

Exited(pc) == pc \in {"exit0", "exit1"}

Event(p, o, t, w) == [party |-> p, op |-> o, type |-> t, want |-> w]

\* send() fails only on a connection the peer has closed, and need not
\* fail there
SendOutcomes(peer) == IF Exited(peer) THEN BOOLEAN ELSE {TRUE}

ProgramInit(circuits, vectors, flags) ==
    /\ circuit \in circuits
    /\ g_use_pandp = TRUE
    /\ e_use_pandp \in flags
    /\ garbled_circuit = NoGarbledCircuit
    /\ tpc = "off"
    /\ inputs = <<>> /\ input_labels = <<>> /\ output_labels = <<>> /\ garbled_result = <<>>
    /\ garbler_inputs \in vectors
    /\ evaluator_inputs \in vectors
    /\ gpc = "start" /\ epc = "start"
    /\ g2e = <<>> /\ e2g = <<>>
    /\ e_gc = NoGarbledCircuit
    /\ all_input_labels = <<>> /\ e_output_labels = <<>> /\ final_result = <<>>
    /\ events = <<>>
    /\ ParserIdle

\* ---------------------------------------------------------- GarblerProgram
GarblerSplit == InputSplit(garbled_circuit.circuit, Len(garbler_inputs), TRUE)

garbler_wire_indices ==
    SubSeq(garbled_circuit.circuit.input_wires, 1, GarblerSplit.garbler)

evaluator_wire_indices ==
    SubSeq(garbled_circuit.circuit.input_wires,
           garbled_circuit.circuit.num_inputs - GarblerSplit.evaluator + 1,
           Len(garbled_circuit.circuit.input_wires))

\* the Garbler says goodbye without waiting for the result
GAfterLabels_NoResult == IF GarblerSplit.evaluator > 0 THEN "send_ot" ELSE "send_goodbye"

GAfterLabels == IF GarblerSplit.evaluator > 0 THEN "send_ot" ELSE "receive_result"
\* a Garbler that sends INPUT_LABELS whatever its bit count
GAfterCircuit_Always == "send_input_labels"

GAfterCircuit == IF garbler_inputs # <<>> THEN "send_input_labels" ELSE GAfterLabels

\* a failed step of the Garbler: run() catches, prints and returns 1
GFail == gpc' = "exit1" /\ UNCHANGED <<final_result, g2e, e2g, events>>

\* run(): load the circuit, garble it, open the listening socket
GGarble ==
    /\ gpc = "start"
    /\ \E lsbs \in IF g_use_pandp THEN {ZeroLowBits(circuit)} ELSE LowBits(circuit),
          perms \in IF g_use_pandp THEN {[i \in DOMAIN circuit.gates |-> IdentityPerm]}
                    ELSE [DOMAIN circuit.gates -> Perms4] :
          \E r \in {garble_circuit(circuit, g_use_pandp, lsbs, perms)} :
             /\ garbled_circuit' = r.gc
             /\ gpc' = IF r.threw THEN "exit1" ELSE "listening"
    /\ UNCHANGED <<cvars, tvars, ivars, final_result, evars, g2e, e2g, events>>

\* wait_for_client returns once the Evaluator has connected
GAccept ==
    /\ gpc = "listening"
    /\ \E k \in DOMAIN events : events[k].party = "E" /\ events[k].op = "connect"
    /\ gpc' = "send_hello"
    /\ events' = Append(events, Event("G", "accept", "", ""))
    /\ UNCHANGED <<cvars, garbled_circuit, tvars, ivars, final_result, evars, g2e, e2g>>

\* a framed send of the Garbler
GSend(frame, next) ==
    \E ok \in SendOutcomes(epc) :
        IF ok
        THEN /\ g2e' = Append(g2e, frame)
             /\ gpc' = next
             /\ events' = Append(events, Event("G", "send", frame.type, frame.type))
             /\ UNCHANGED <<final_result, e2g>>
        ELSE GFail

GSendHello ==
    /\ gpc = "send_hello"
    /\ GSend(HelloFrame("Garbler", 7), "receive_hello")
    /\ UNCHANGED <<cvars, garbled_circuit, tvars, ivars, evars>>

GReceiveHello ==
    /\ gpc = "receive_hello"
    /\ e2g # <<>> \/ Exited(epc)
    /\ IF e2g = <<>> \/ receive_message(e2g).threw
       THEN GFail
       ELSE LET r == receive_message(e2g)
            IN /\ e2g' = r.rest
               /\ events' = Append(events, Event("G", "receive", r.msg.type, "HELLO"))
               /\ gpc' = IF r.msg.type # "HELLO" THEN "exit1" ELSE "send_circuit"
               /\ UNCHANGED <<final_result, g2e>>
    /\ UNCHANGED <<cvars, garbled_circuit, tvars, ivars, evars>>

\* the checks of the input counts, then send_circuit
GSendCircuit ==
    /\ gpc = "send_circuit"
    /\ IF GarblerSplit.threw THEN GFail
       ELSE GSend(CircuitFrame(garbled_circuit), GAfterCircuit)
    /\ UNCHANGED <<cvars, garbled_circuit, tvars, ivars, evars>>

GSendInputLabels ==
    /\ gpc = "send_input_labels"
    /\ LET r == encode_inputs(garbled_circuit, garbler_inputs, garbler_wire_indices)
       IN IF r.threw THEN GFail ELSE GSend(InputLabelsFrame(r.labels), GAfterLabels)
    /\ UNCHANGED <<cvars, garbled_circuit, tvars, ivars, evars>>

\* perform_ot_for_evaluator
GSendOT ==
    /\ gpc = "send_ot"
    /\ LET r == get_ot_input_pairs(garbled_circuit, evaluator_wire_indices)
       IN \E ok \in SendOutcomes(epc) :
            IF r.threw \/ ~ok THEN GFail
            ELSE /\ g2e' = g2e \o send_ot(r.pairs)
                 /\ gpc' = "receive_result"
                 /\ events' = Append(events, Event("G", "send", "OT", "OT"))
                 /\ UNCHANGED <<final_result, e2g>>
    /\ UNCHANGED <<cvars, garbled_circuit, tvars, ivars, evars>>

\* receive_result, then decode_outputs on the labels of the payload
GReceiveResult ==
    /\ gpc = "receive_result"
    /\ e2g # <<>> \/ Exited(epc)
    /\ IF e2g = <<>> \/ receive_message(e2g).threw
       THEN GFail
       ELSE LET r == receive_message(e2g)
                d == decode_outputs(garbled_circuit, parse_result(r.msg))
            IN /\ e2g' = r.rest
               /\ events' = Append(events, Event("G", "receive", r.msg.type, "RESULT"))
               /\ IF r.msg.type # "RESULT" \/ d.threw
                  THEN gpc' = "exit1" /\ UNCHANGED final_result
                  ELSE gpc' = "send_goodbye" /\ final_result' = d.bits
               /\ UNCHANGED g2e
    /\ UNCHANGED <<cvars, garbled_circuit, tvars, ivars, evars>>

GSendGoodbye ==
    /\ gpc = "send_goodbye"
    /\ GSend(GoodbyeFrame, "exit0")
    /\ UNCHANGED <<cvars, garbled_circuit, tvars, ivars, evars>>

GarblerNext ==
    \/ GGarble \/ GAccept \/ GSendHello \/ GReceiveHello \/ GSendCircuit
    \/ GSendInputLabels \/ GSendOT \/ GReceiveResult \/ GSendGoodbye

\* -------------------------------------------------------- EvaluatorProgram
EvaluatorSplit == InputSplit(e_gc.circuit, Len(evaluator_inputs), FALSE)

EAfterLabels == IF evaluator_inputs # <<>> THEN "receive_ot" ELSE "evaluate"

\* a failed step of the Evaluator: run() catches, prints and returns 1
EFail ==
    epc' = "exit1" /\ UNCHANGED <<e_gc, all_input_labels, e_output_labels, g2e, e2g, events>>

\* SocketConnection(hostname, port): refused unless the Garbler listens
EConnect ==
    /\ epc = "start"
    /\ IF gpc = "listening"
       THEN /\ epc' = "send_hello"
            /\ events' = Append(events, Event("E", "connect", "", ""))
            /\ UNCHANGED <<e_gc, all_input_labels, e_output_labels, g2e, e2g>>
       ELSE EFail
    /\ UNCHANGED <<cvars, garbled_circuit, tvars, ivars, gvars>>

\* a framed send of the Evaluator
ESend(frame, next) ==
    \E ok \in SendOutcomes(gpc) :
        IF ok
        THEN /\ e2g' = Append(e2g, frame)
             /\ epc' = next
             /\ events' = Append(events, Event("E", "send", frame.type, frame.type))
             /\ UNCHANGED <<e_gc, all_input_labels, e_output_labels, g2e>>
        ELSE EFail

ESendHello ==
    /\ epc = "send_hello"
    /\ ESend(HelloFrame("Evaluator", 9), "receive_hello")
    /\ UNCHANGED <<cvars, garbled_circuit, tvars, ivars, gvars>>

EReceiveHello ==
    /\ epc = "receive_hello"
    /\ g2e # <<>> \/ Exited(gpc)
    /\ IF g2e = <<>> \/ receive_message(g2e).threw
       THEN EFail
       ELSE LET r == receive_message(g2e)
            IN /\ g2e' = r.rest
               /\ events' = Append(events, Event("E", "receive", r.msg.type, "HELLO"))
               /\ epc' = IF r.msg.type # "HELLO" THEN "exit1" ELSE "receive_circuit"
               /\ UNCHANGED <<e_gc, all_input_labels, e_output_labels, e2g>>
    /\ UNCHANGED <<cvars, garbled_circuit, tvars, ivars, gvars>>

\* receive_circuit, then the checks of the input counts on what arrived
EReceiveCircuit ==
    /\ epc = "receive_circuit"
    /\ g2e # <<>> \/ Exited(gpc)
    /\ IF g2e = <<>> \/ receive_message(g2e).threw
       THEN EFail
       ELSE LET r == receive_message(g2e)
                d == deserialize_garbled_circuit(r.msg.data)
                split == InputSplit(d.gc.circuit, Len(evaluator_inputs), FALSE)
            IN /\ g2e' = r.rest
               /\ events' = Append(events, Event("E", "receive", r.msg.type, "CIRCUIT"))
               /\ IF r.msg.type # "CIRCUIT" \/ d.threw
                  THEN epc' = "exit1" /\ UNCHANGED e_gc
                  ELSE /\ e_gc' = d.gc
                       /\ epc' = IF split.threw THEN "exit1"
                                 ELSE IF split.garbler > 0 THEN "receive_input_labels"
                                 ELSE EAfterLabels
               /\ UNCHANGED <<all_input_labels, e_output_labels, e2g>>
    /\ UNCHANGED <<cvars, garbled_circuit, tvars, ivars, gvars>>

EReceiveInputLabels ==
    /\ epc = "receive_input_labels"
    /\ g2e # <<>> \/ Exited(gpc)
    /\ IF g2e = <<>> \/ receive_message(g2e).threw
       THEN EFail
       ELSE LET r == receive_message(g2e)
                l == parse_input_labels(r.msg, EvaluatorSplit.garbler)
            IN /\ g2e' = r.rest
               /\ events' = Append(events, Event("E", "receive", r.msg.type, "INPUT_LABELS"))
               /\ IF r.msg.type # "INPUT_LABELS" \/ l.threw
                  THEN epc' = "exit1" /\ UNCHANGED all_input_labels
                  ELSE epc' = EAfterLabels /\ all_input_labels' = l.labels
               /\ UNCHANGED <<e_gc, e_output_labels, e2g>>
    /\ UNCHANGED <<cvars, garbled_circuit, tvars, ivars, gvars>>

\* perform_ot_for_inputs: two labels read per choice bit
EReceiveOT ==
    /\ epc = "receive_ot"
    /\ BytesIn(g2e) >= 2 * WIRE_LABEL_SIZE * Len(evaluator_inputs) \/ Exited(gpc)
    /\ IF BytesIn(g2e) < 2 * WIRE_LABEL_SIZE * Len(evaluator_inputs)
       THEN EFail
       ELSE \E jb \in {0, 1} :
              LET r == receive_ot(evaluator_inputs, g2e, jb)
              IN /\ g2e' = r.rest
                 /\ all_input_labels' = all_input_labels \o r.labels
                 /\ events' = Append(events, Event("E", "receive", "OT", "OT"))
                 /\ epc' = "evaluate"
                 /\ UNCHANGED <<e_gc, e_output_labels, e2g>>
    /\ UNCHANGED <<cvars, garbled_circuit, tvars, ivars, gvars>>

\* evaluator.evaluate_circuit(garbled_circuit, all_input_labels)
EEvaluate ==
    /\ epc = "evaluate"
    /\ \E jbs \in JunkBits(Len(e_gc.circuit.gates)) :
          LET r == evaluate_circuit(e_gc, all_input_labels, e_use_pandp, jbs)
          IN IF r.threw THEN EFail
             ELSE /\ e_output_labels' = r.labels
                  /\ epc' = "send_result"
                  /\ events' = Append(events, Event("E", "evaluate", "", ""))
                  /\ UNCHANGED <<e_gc, all_input_labels, g2e, e2g>>
    /\ UNCHANGED <<cvars, garbled_circuit, tvars, ivars, gvars>>

ESendResult ==
    /\ epc = "send_result"
    /\ ESend(ResultFrame(e_output_labels), "receive_goodbye")
    /\ UNCHANGED <<cvars, garbled_circuit, tvars, ivars, gvars>>

\* receive_any_message: the type is read only to print a line
EReceiveGoodbye ==
    /\ epc = "receive_goodbye"
    /\ g2e # <<>> \/ Exited(gpc)
    /\ IF g2e = <<>> \/ receive_message(g2e).threw
       THEN EFail
       ELSE LET r == receive_message(g2e)
            IN /\ g2e' = r.rest
               /\ events' = Append(events, Event("E", "receive", r.msg.type, "GOODBYE"))
               /\ epc' = "exit0"
               /\ UNCHANGED <<e_gc, all_input_labels, e_output_labels, e2g>>
    /\ UNCHANGED <<cvars, garbled_circuit, tvars, ivars, gvars>>

EvaluatorNext ==
    \/ EConnect \/ ESendHello \/ EReceiveHello \/ EReceiveCircuit \/ EReceiveInputLabels
    \/ EReceiveOT \/ EEvaluate \/ ESendResult \/ EReceiveGoodbye

Next == GarblerNext \/ EvaluatorNext

Spec == ProgramInit(SessionCircuits, InputVectors(MaxInputs), BOOLEAN) /\ [][Next]_vars

\* Both programs are running processes: a step that is not blocked in
\* recv() or accept() is taken.
\* The sessions run under fairness: one gate type of each arity and a
\* large circuit (a chain of NOT gates), an Evaluator with
\* point-and-permute, and one input of each length (1, 10, 101, ...).
LargeCircuit ==
    MakeCircuit(1, 1, [k \in 1..LargeGates |-> Gate(k, k - 1, -1, "NOT")], <<1>>)

FairCircuits ==
    {c \in SessionCircuits : c.gates[1].type \in {"AND", "NOT"}} \cup {LargeCircuit}

FairVectors == {[i \in 1..k |-> i % 2 = 1] : k \in 0..MaxInputs}

FairSpec ==
    /\ ProgramInit(FairCircuits, FairVectors, {TRUE})
    /\ [][Next]_vars
    /\ WF_vars(GarblerNext) /\ WF_vars(EvaluatorNext)

\* ------------------------------------------------- a peer of another make
\* The stream carries what the peer wrote, and the peer need not be this
\* program: once in a session, a frame of any type with an empty payload is
\* written behind what the stream already holds.
PeerPayload(t) == IF t = "CIRCUIT" THEN EmptyCircuitData ELSE <<>>

PeerWrites ==
    /\ ~Exited(gpc) \/ ~Exited(epc)
    /\ \E k \in DOMAIN events : events[k].op = "connect"
    /\ \A k \in DOMAIN events : events[k].party # "peer"
    /\ \E t \in MessageType, to_evaluator \in BOOLEAN :
          /\ IF to_evaluator
             THEN g2e' = Append(g2e, Frame(t, PeerPayload(t), 0)) /\ UNCHANGED e2g
             ELSE e2g' = Append(e2g, Frame(t, PeerPayload(t), 0)) /\ UNCHANGED g2e
          /\ events' = Append(events, Event("peer", "send", t, t))
    /\ UNCHANGED <<cvars, garbled_circuit, tvars, ivars, gvars, evars>>

PeerCircuits == {c \in SessionCircuits : c.num_inputs = 1 /\ c.gates[1].type = "NOT"}

PeerNext == Next \/ PeerWrites

PeerSpec == ProgramInit(PeerCircuits, InputVectors(1), {TRUE}) /\ [][PeerNext]_vars

\* The same with a payload of MAX_MESSAGE_SIZE bytes, or of one byte more:
\* counts of zero in a CIRCUIT or INPUT_LABELS payload, labels that are
\* nobody's in a RESULT payload.
SizedPayload(t, payload_size) ==
    CASE t = "CIRCUIT" -> [EmptyCircuitData EXCEPT !.bytes = payload_size]
      [] t = "INPUT_LABELS" -> [count |-> 0, labels |-> <<>>]
      [] t = "RESULT" -> [i \in 1..(payload_size \div WIRE_LABEL_SIZE) |-> JunkLabel(0)]
      [] OTHER -> <<>>

PeerWritesSized ==
    /\ ~Exited(gpc) \/ ~Exited(epc)
    /\ \E k \in DOMAIN events : events[k].op = "connect"
    /\ \A k \in DOMAIN events : events[k].party # "peer"
    /\ \E t \in MessageType, payload_size \in {MAX_MESSAGE_SIZE, MAX_MESSAGE_SIZE + 1},
          to_evaluator \in BOOLEAN :
          /\ IF to_evaluator
             THEN /\ g2e' = Append(g2e, Frame(t, SizedPayload(t, payload_size), payload_size))
                  /\ UNCHANGED e2g
             ELSE /\ e2g' = Append(e2g, Frame(t, SizedPayload(t, payload_size), payload_size))
                  /\ UNCHANGED g2e
          /\ events' = Append(events, Event("peer", "send", t, t))
    /\ UNCHANGED <<cvars, garbled_circuit, tvars, ivars, gvars, evars>>

SizedPeerNext == Next \/ PeerWritesSized

\* the sessions in which each party holds the bits of its share
SizedPeerInit ==
    /\ ProgramInit({c \in PeerCircuits : c.input_partition \in {<<1>>, <<0, 1>>}}, FairVectors, {TRUE})
    /\ Len(garbler_inputs) = circuit.input_partition[1]
    /\ Len(evaluator_inputs) = SeqSum(Tail(circuit.input_partition))

SizedPeerSpec == SizedPeerInit /\ [][SizedPeerNext]_vars

\* ----------------------------------------------------------------- claims
SupportedTypes == {"AND", "OR", "XOR", "NAND", "NOR", "NOT"}

PlainBits == evaluate_plaintext(circuit, inputs).bits

\* C1: with point-and-permute on both sides, for every well-formed circuit
\* that garbles and every input vector, encoding, evaluating and decoding
\* never fails and the decoded bits equal evaluate_plaintext
C1_PandpCorrect ==
    (g_use_pandp /\ e_use_pandp /\ WellFormed(circuit)) =>
        /\ tpc \notin {"encode_failed", "evaluate_failed", "decode_failed"}
        /\ tpc = "decoded" => garbled_result = PlainBits

\* a two-gate circuit (a NOT fed by a binary gate) decoded to a 1 and a 0
C1_Witness ==
    /\ g_use_pandp /\ e_use_pandp /\ tpc = "decoded"
    /\ Len(circuit.gates) = 2
    /\ circuit.gates[1].type = "AND" /\ circuit.gates[2].type = "NOT"
    /\ garbled_result = <<TRUE, FALSE>>

\* C2: without point-and-permute on either side, the decoded bits of every
\* well-formed circuit that garbles equal evaluate_plaintext
C2_LegacyCorrect ==
    (~g_use_pandp /\ ~e_use_pandp /\ WellFormed(circuit) /\ tpc = "decoded") =>
        garbled_result = PlainBits

\* C4: when exactly one side uses point-and-permute, evaluate_circuit
\* throws an EvaluatorException and returns no output labels
C4_MismatchDetected ==
    (g_use_pandp # e_use_pandp) => tpc \notin {"evaluated", "decoded"}

\* C10: garble_circuit throws only for a gate whose type is outside
\* {AND, OR, XOR, NAND, NOR, NOT}
C10_GarbleAllSupported ==
    tpc = "garble_failed" =>
        \E i \in DOMAIN circuit.gates : circuit.gates[i].type \notin SupportedTypes

\* ------------------------------------------------------ claims: sessions
Did(p, o, t, i) == events[i].party = p /\ events[i].op = o /\ events[i].type = t

\* every event B is preceded by an event A
Precedes(A(_), B(_)) ==
    \A i \in DOMAIN events : B(i) => \E j \in 1..(i - 1) : A(j)

\* no event A follows an event B
NeverAfter(A(_), B(_)) ==
    \A i \in DOMAIN events : B(i) => \A j \in (i + 1)..Len(events) : ~A(j)

GSentHello(i) == Did("G", "send", "HELLO", i)
GGotHello(i) == Did("G", "receive", "HELLO", i)
GSentCircuit(i) == Did("G", "send", "CIRCUIT", i)
GSentLabels(i) == Did("G", "send", "INPUT_LABELS", i)
GSentOT(i) == Did("G", "send", "OT", i)
GGotResult(i) == Did("G", "receive", "RESULT", i)
GSentGoodbye(i) == Did("G", "send", "GOODBYE", i)
ESentHello(i) == Did("E", "send", "HELLO", i)
EGotHello(i) == Did("E", "receive", "HELLO", i)
EGotCircuit(i) == Did("E", "receive", "CIRCUIT", i)
EGotLabels(i) == Did("E", "receive", "INPUT_LABELS", i)
EGotOT(i) == Did("E", "receive", "OT", i)
EEvaluated(i) == Did("E", "evaluate", "", i)
ESentResult(i) == Did("E", "send", "RESULT", i)
EGotGoodbye(i) == Did("E", "receive", "GOODBYE", i)

Happened(A(_)) == \E i \in DOMAIN events : A(i)

GarblerShare == circuit.input_partition[1]
EvaluatorShare == SeqSum(Tail(circuit.input_partition))

\* C3: in the OT phase the stream from the Garbler never holds both labels
\* of an input wire of the Evaluator
C3_OneLabelOnTheWire ==
    gpc \notin {"off", "start", "exit1", "listening"} =>
        \A w \in Range(evaluator_wire_indices) :
            ~(\E i, j \in DOMAIN g2e :
                /\ g2e[i].kind = "raw" /\ g2e[i].label = garbled_circuit.input_labels[w][1]
                /\ g2e[j].kind = "raw" /\ g2e[j].label = garbled_circuit.input_labels[w][2])

\* C5: each party sends HELLO before it receives HELLO; the Garbler sends
\* CIRCUIT after it received HELLO, INPUT_LABELS after CIRCUIT, the OT bytes
\* after CIRCUIT and never before INPUT_LABELS, GOODBYE after it received
\* RESULT; the Evaluator sends RESULT after it received CIRCUIT, the
\* Garbler's input labels and the OT labels where the circuit has such, and
\* after it evaluated
C5_MessageOrder ==
    /\ Precedes(GSentHello, GGotHello)
    /\ Precedes(ESentHello, EGotHello)
    /\ Precedes(GGotHello, GSentCircuit)
    /\ Precedes(GSentCircuit, GSentLabels)
    /\ Precedes(GSentCircuit, GSentOT)
    /\ NeverAfter(GSentLabels, GSentOT)
    /\ Precedes(GGotResult, GSentGoodbye)
    /\ Precedes(EGotCircuit, ESentResult)
    /\ GarblerShare > 0 => Precedes(EGotLabels, ESentResult)
    /\ EvaluatorShare > 0 => Precedes(EGotOT, ESentResult)
    /\ Precedes(EEvaluated, ESentResult)

\* a session with labels of both kinds that ran to the GOODBYE
C5_Witness ==
    /\ Happened(GSentLabels) /\ Happened(GSentOT) /\ Happened(EGotLabels) /\ Happened(EGotOT)
    /\ Happened(ESentResult) /\ Happened(GSentGoodbye)

\* the premises of C6
CountsMatch ==
    /\ Len(garbler_inputs) = GarblerShare
    /\ Len(evaluator_inputs) = EvaluatorShare

Connected == Happened(LAMBDA i : events[i].op = "connect")

SessionDone ==
    /\ gpc = "exit0" /\ epc = "exit0"
    /\ g2e = <<>> /\ e2g = <<>>
    /\ Happened(GGotResult) /\ Happened(EGotGoodbye)

\* the serialized circuit is a payload receive_message accepts
CircuitFits == CircuitFrame(garbled_circuit).size <= MAX_MESSAGE_SIZE

\* C6: once connected, a session on a circuit that garbled, with the
\* Garbler holding input_partition[0] bits and the Evaluator the rest,
\* ends with both programs returning 0, the Garbler having read RESULT and
\* the Evaluator GOODBYE, and nothing left unread
C6_BothTerminate == (Connected /\ CountsMatch) ~> SessionDone

\* the same for the circuits whose serialization is at most
\* MAX_MESSAGE_SIZE bytes
C6_BothTerminateWithinCap == (Connected /\ CountsMatch /\ CircuitFits) ~> SessionDone

\* a finished session in which the OT phase ran for two wires
C6_Witness ==
    /\ SessionDone /\ CountsMatch
    /\ Len(evaluator_inputs) = 2 /\ Happened(EGotOT)

\* C7: an Evaluator that received CIRCUIT and holds a number of bits other
\* than the sum of input_partition[1..] has failed, and goes on to
\* neither INPUT_LABELS nor OT
C7_CountValidated ==
    (Happened(EGotCircuit) /\ Len(evaluator_inputs) # EvaluatorShare) => epc = "exit1"

\* C8: a party that returns 1 after the connection was made has sent ERROR
C8_ErrorSent ==
    /\ (gpc = "exit1" /\ Happened(LAMBDA i : events[i].op = "accept")) =>
           Happened(LAMBDA i : Did("G", "send", "ERROR", i))
    /\ (epc = "exit1" /\ Connected) =>
           Happened(LAMBDA i : Did("E", "send", "ERROR", i))

\* C9: a party that received a message of another type than the step
\* expects does not return 0
C9_OnlyExpectedTypes ==
    \A i \in DOMAIN events :
        (events[i].op = "receive" /\ events[i].type # events[i].want) =>
            /\ events[i].party = "G" => gpc # "exit0"
            /\ events[i].party = "E" => epc # "exit0"

\* ----------------------------------------------------- the parser's claims
Parsed == ppc \in {"accepted", "rejected"}

\* the gate lines parse_circuit reads
ReadLines == 1..Min(text.num_gates, Len(text.gates))

\* the wires written before gate i: the input wires and the outputs of the
\* gates 1..i-1
WrittenBefore(c, i) == Range(c.input_wires) \cup {c.gates[j].output_wire : j \in 1..(i - 1)}

\* C11: every circuit parse_circuit accepts has no gate that writes a wire
\* already written, be it an input wire or the output of an earlier gate
C11_NoRedefinition ==
    ppc = "accepted" =>
        \A i \in DOMAIN parsed.circuit.gates :
            parsed.circuit.gates[i].output_wire \notin WrittenBefore(parsed.circuit, i)

\* every input of every gate is written before the gate
Topological(c) ==
    \A i \in DOMAIN c.gates :
        /\ c.gates[i].input_wire1 \in WrittenBefore(c, i)
        /\ c.gates[i].input_wire2 # -1 => c.gates[i].input_wire2 \in WrittenBefore(c, i)

\* gate line i of the text names, as an input, a wire that is neither one
\* of the input wires nor the output of an earlier line
ReadsUnwritten(i) ==
    LET nums == text.gates[i].nums
        Out(j) == text.gates[j].nums[2 + text.gates[j].nums[1] + 1]
        written == 0..(SeqSum(text.inputs) - 1) \cup {Out(j) : j \in 1..(i - 1)}
    IN \E k \in 1..nums[1] : nums[2 + k] \notin written

\* the text has gate lines of the right shape only
AllShaped == \A i \in ReadLines : text.gates[i] \in ShapedLines(text.num_wires)

\* C12: parse_circuit rejects every circuit with a gate that reads a wire
\* not written before it, and the gates of every circuit it accepts are in
\* topological order
C12_Topological ==
    /\ (Parsed /\ AllShaped /\ \E i \in ReadLines : ReadsUnwritten(i)) => ppc = "rejected"
    /\ ppc = "accepted" => Topological(parsed.circuit)

\* a text rejected for nothing but its second gate reading the wire that
\* only a later line would write
C12_Witness ==
    /\ ppc = "rejected"
    /\ text = BristolText(2, 3, <<1>>, <<1>>,
                          <<GateLine(<<2, 1, 0, 2, 1>>, "AND"), GateLine(<<1, 1, 1, 2>>, "INV")>>)

SupportedTokens == {"AND", "OR", "XOR", "NAND", "NOR", "NOT", "INV"}

\* the gate line has an arity mismatch or an unsupported type (the type
\* token read in upper case)
Mismatched(line) ==
    \/ Len(line.nums) < 2
    \/ ToUpper(line.type) \notin SupportedTokens
    \/ ToUpper(line.type) \in {"NOT", "INV"} /\ line.nums[1] = 2
    \/ ToUpper(line.type) \notin {"NOT", "INV"} /\ line.nums[1] = 1
    \/ line.nums[1] > 2
    \/ line.nums[2] # 1

\* C13: parse_circuit rejects every text with a gate line that has an
\* arity mismatch (NOT or INV with two inputs, another type with one, more
\* than two inputs, other than one output) or a type token outside AND,
\* OR, XOR, NAND, NOR, NOT, INV
C13_ArityAndType ==
    (Parsed /\ \E i \in ReadLines : Mismatched(text.gates[i])) => ppc = "rejected"

\* a two-input INV that is the second gate line of a text is rejected
C13_Witness ==
    /\ ppc = "rejected"
    /\ text = BristolText(2, 2, <<1>>, <<1>>,
                          <<GateLine(<<1, 1, 0, 1>>, "INV"), GateLine(<<2, 1, 0, 0, 1>>, "INV")>>)

\* spec section 3 (Circuit): the input wires are the first num_inputs
\* wires, the output wires the last num_outputs, and each partition is a
\* list of counts
DataModelForm(c) ==
    /\ c.input_wires = Interval(0, c.num_inputs)
    /\ c.output_wires = Interval(c.num_wires - c.num_outputs, c.num_wires)
    /\ c.input_partition # <<>> /\ \A k \in DOMAIN c.input_partition : c.input_partition[k] >= 0
    /\ c.output_partition # <<>> /\ \A k \in DOMAIN c.output_partition : c.output_partition[k] >= 0

C15_SerializeRoundTrip ==
    (Happened(EGotCircuit) /\ e_gc # NoGarbledCircuit) =>
        /\ e_gc.circuit = garbled_circuit.circuit
        /\ e_gc.garbled_gates = garbled_circuit.garbled_gates

\* the party is at a call of receive_message and takes its step
GarblerReads == gpc \in {"receive_hello", "receive_result"} /\ gpc' # gpc
EvaluatorReads ==
    /\ epc \in {"receive_hello", "receive_circuit", "receive_input_labels", "receive_goodbye"}
    /\ epc' # epc

\* the next bytes of the stream are a frame that declares payload_size
Declares(ch, payload_size) == ch # <<>> /\ Head(ch).kind = "msg" /\ Head(ch).size = payload_size

\* C16: a party that calls receive_message on a frame of any type that
\* declares more than MAX_MESSAGE_SIZE payload bytes fails and leaves the
\* payload unread; a frame that declares exactly MAX_MESSAGE_SIZE bytes is
\* read off the stream
C16_SizeCap ==
    [][/\ (GarblerReads /\ Declares(e2g, MAX_MESSAGE_SIZE + 1)) => (gpc' = "exit1" /\ e2g' = e2g)
       /\ (EvaluatorReads /\ Declares(g2e, MAX_MESSAGE_SIZE + 1)) => (epc' = "exit1" /\ g2e' = g2e)
       /\ (GarblerReads /\ Declares(e2g, MAX_MESSAGE_SIZE)) =>
             (e2g' = Tail(e2g) /\ events' = Append(events, Event("G", "receive", Head(e2g).type, events'[Len(events')].want)))
       /\ (EvaluatorReads /\ Declares(g2e, MAX_MESSAGE_SIZE)) =>
             (g2e' = Tail(g2e) /\ events' = Append(events, Event("E", "receive", Head(g2e).type, events'[Len(events')].want)))
      ]_vars

\* the Evaluator failed, while the Garbler was still running, at a frame
\* that declares MAX_MESSAGE_SIZE + 1 bytes, which is still in the stream
C16_Witness ==
    /\ epc = "exit1" /\ ~Exited(gpc)
    /\ Declares(g2e, MAX_MESSAGE_SIZE + 1)
    /\ events[Len(events)].party = "peer"

\* receive_input_labels read an INPUT_LABELS message
EReadLabels(i) == EGotLabels(i) /\ events[i].want = "INPUT_LABELS"

\* the count field of the Garbler's INPUT_LABELS message is not the number
\* of Garbler labels the Evaluator computed from the circuit it received
LabelCountMismatch == Len(garbler_inputs) # EvaluatorSplit.garbler

\* C17: an Evaluator whose receive_input_labels read an INPUT_LABELS
\* message with a count other than the one it expects has failed, and has
\* neither run the evaluation nor sent RESULT
C17_LabelCountChecked ==
    (Happened(EReadLabels) /\ LabelCountMismatch) =>
        (epc = "exit1" /\ ~Happened(EEvaluated) /\ ~Happened(ESentResult))

\* the Evaluator read an INPUT_LABELS message with one label while
\* expecting two
C17_Witness ==
    /\ Happened(EReadLabels) /\ LabelCountMismatch
    /\ Len(garbler_inputs) = 1 /\ EvaluatorSplit.garbler = 2

\* ------------------------------------------------------ the Garbler's claims
\* C18: decode_outputs never throws, and returns for each received label
\* FALSE if it equals the label_for_0 stored for its output wire and TRUE
\* otherwise
C18_DecodeTotal ==
    /\ tpc # "decode_failed"
    /\ tpc = "decoded" =>
          /\ Len(garbled_result) = Min(Len(output_labels), Len(garbled_circuit.circuit.output_wires))
          /\ \A i \in DOMAIN garbled_result :
                garbled_result[i] =
                    (output_labels[i] # garbled_circuit.output_mapping[garbled_circuit.circuit.output_wires[i]])

\* the labels receive_ot returned: perform_ot_for_inputs appends them to
\* all_input_labels
OTLabels ==
    SubSeq(all_input_labels, Len(all_input_labels) - Len(evaluator_inputs) + 1, Len(all_input_labels))

OTBothRan ==
    /\ Happened(GSentOT) /\ Happened(EGotOT)
    /\ Len(evaluator_wire_indices) = Len(evaluator_inputs)

\* C19: when the Garbler ran send_ot on n pairs and the Evaluator ran
\* receive_ot on n choices, receive_ot returned n labels, the i-th being the
\* second label of the i-th pair if the i-th choice is 1 and the first label
\* otherwise
C19_OTSelects ==
    OTBothRan =>
        /\ Len(all_input_labels) = EvaluatorSplit.garbler + Len(evaluator_inputs)
        /\ \A i \in DOMAIN evaluator_inputs :
              OTLabels[i] = get_ot_input_pairs(garbled_circuit, evaluator_wire_indices).pairs[i][IF evaluator_inputs[i] THEN 2 ELSE 1]

C19_Witness ==
    /\ OTBothRan
    /\ evaluator_inputs = <<TRUE, FALSE>>
    /\ OTLabels = <<garbled_circuit.input_labels[evaluator_wire_indices[1]][2], garbled_circuit.input_labels[evaluator_wire_indices[2]][1]>>

\* the Garbler's wire_labels member when garble_circuit returns: the pairs
\* generate_wire_labels drew and whatever the gate loop added
WireLabelsAfter ==
    GarbleGates(garbled_circuit.circuit, 1, Len(garbled_circuit.circuit.gates),
                garbled_circuit.input_labels, <<>>, g_use_pandp,
                [i \in DOMAIN garbled_circuit.circuit.gates |-> IdentityPerm]).wl

GarbledWithPandp == g_use_pandp /\ tpc \in {"garbled", "decoded", "decode_failed"}

\* C20: after garble_circuit with point-and-permute, every wire that has a
\* label pair, every input wire and gate output wire among them, has
\* perm_bit 0 on its label for 0 and perm_bit 1 on its label for 1
C20_PermBits ==
    GarbledWithPandp =>
        /\ LabelledWires(circuit) \subseteq DOMAIN garbled_circuit.input_labels
        /\ \A w \in DOMAIN garbled_circuit.input_labels :
              /\ perm_bit(garbled_circuit.input_labels[w][1]) = 0
              /\ perm_bit(garbled_circuit.input_labels[w][2]) = 1
        /\ \A w \in DOMAIN WireLabelsAfter :
              /\ perm_bit(WireLabelsAfter[w][1]) = 0
              /\ perm_bit(WireLabelsAfter[w][2]) = 1
        /\ \A w \in DOMAIN garbled_circuit.output_mapping :
              perm_bit(garbled_circuit.output_mapping[w]) = 0

C20_Witness ==
    /\ GarbledWithPandp
    /\ circuit.num_gates = 2
    /\ DOMAIN garbled_circuit.input_labels = {0, 1, 2}
    /\ perm_bit(garbled_circuit.input_labels[2][2]) = 1

\* ------------------------------------------------------- the rows of a table
\* every label the Garbler drew for a wire of the garbled circuit
DrawnLabels ==
    UNION {{garbled_circuit.input_labels[w][1], garbled_circuit.input_labels[w][2]} :
           w \in DOMAIN garbled_circuit.input_labels}

\* C21: decrypt_label returns a label only for a ciphertext encrypt_label
\* made under the same key1, key2 and gate_id; under any other keys or gate
\* id it throws, so of the four rows of a gate one decrypts under a given
\* pair of input labels
C21_OnlyMatchingKeysDecrypt ==
    \A i \in DOMAIN garbled_circuit.garbled_gates, r \in Rows, jb \in {0, 1} :
        \A key1, key2 \in DrawnLabels :
            LET ct == garbled_circuit.garbled_gates[i][r]
                d == decrypt_label(ct, key1, key2, i - 1, jb)
            IN ~d.threw => (ct.k1 = key1 /\ ct.k2 = key2 /\ ct.gid = i - 1)

\* the label of a pair for bit a
LabelFor(pair, a) == IF a THEN pair[2] ELSE pair[1]

PandpGarbled == g_use_pandp /\ e_use_pandp /\ tpc \notin {"start", "garble_failed"}

\* gate i of the garbled circuit with its table and the label pairs of its
\* wires; in2 is the pair of input_wire1 again for a NOT gate
GateView(i) ==
    LET gate == garbled_circuit.circuit.gates[i]
    IN [gate |-> gate, table |-> garbled_circuit.garbled_gates[i],
        out |-> garbled_circuit.input_labels[gate.output_wire],
        in1 |-> garbled_circuit.input_labels[gate.input_wire1],
        in2 |-> garbled_circuit.input_labels[IF gate.input_wire2 = -1 THEN gate.input_wire1
                                             ELSE gate.input_wire2]]

RowOf(g, a, b) == perm_bit(LabelFor(g.in1, a)) * 2 + perm_bit(LabelFor(g.in2, b))

\* C22: with point-and-permute the row of a binary gate for the bits (a, b)
\* is at index perm(in1[a]) * 2 + perm(in2[b]), the four entries have four
\* rows, the row of a NOT gate for the bit a is at index perm(in1[a]), and
\* the Evaluator holding those input labels reads that row
C22_RowPlacement ==
    PandpGarbled =>
        \A i \in DOMAIN garbled_circuit.circuit.gates, jb \in {0, 1} :
            LET g == GateView(i)
            IN IF g.gate.type = "NOT"
               THEN \A a \in BOOLEAN :
                       /\ g.table[perm_bit(LabelFor(g.in1, a))] =
                              encrypt_label(LabelFor(g.out, ~a), LabelFor(g.in1, a), ZeroLabel, i - 1)
                       /\ evaluate_unary_gate(g.table, LabelFor(g.in1, a), i - 1, e_use_pandp, jb) =
                              [threw |-> FALSE, label |-> LabelFor(g.out, ~a)]
               ELSE /\ Cardinality({RowOf(g, a, b) : a \in BOOLEAN, b \in BOOLEAN}) = 4
                    /\ \A a \in BOOLEAN, b \in BOOLEAN :
                          /\ g.table[RowOf(g, a, b)] =
                                 encrypt_label(LabelFor(g.out, gate_function(g.gate.type, a, b).value),
                                               LabelFor(g.in1, a), LabelFor(g.in2, b), i - 1)
                          /\ evaluate_gate(g.table, LabelFor(g.in1, a), LabelFor(g.in2, b), i - 1, e_use_pandp, jb) =
                                 [threw |-> FALSE,
                                  label |-> LabelFor(g.out, gate_function(g.gate.type, a, b).value)]

C22_Witness ==
    /\ PandpGarbled
    /\ Len(garbled_circuit.circuit.gates) = 2
    /\ garbled_circuit.circuit.gates[1].type = "XOR"
    /\ garbled_circuit.circuit.gates[1].input_wire1 # garbled_circuit.circuit.gates[1].input_wire2
    /\ garbled_circuit.circuit.gates[2].type = "NOT"
    /\ GateView(1).table[2] = encrypt_label(GateView(1).out[2], GateView(1).in1[2], GateView(1).in2[1], 0)

\* C23: with point-and-permute the permutation bit of the label of a wire
\* for value 0 is not fixed: among the label tables generate_wire_labels can
\* draw for the circuit there is one where it is 0 and one where it is 1
C23_PermBitIndependent ==
    PandpGarbled =>
        \A w \in DOMAIN garbled_circuit.input_labels, p \in {0, 1} :
            \E lsbs \in LowBits(circuit) :
                perm_bit(generate_wire_labels(circuit, g_use_pandp, lsbs)[w][1]) = p

\* what the code does instead: the permutation bit of every input label the
\* Evaluator is handed is the input bit itself
PermBitIsValue ==
    (PandpGarbled /\ Len(input_labels) = Len(inputs)) =>
        \A i \in DOMAIN inputs : perm_bit(input_labels[i]) = (IF inputs[i] THEN 1 ELSE 0)

\* ------------------------------------------------- the Garbler's input labels
\* p0, the Garbler's share of the input wires
GarblerP0 == circuit.input_partition[1]

\* the labels of the first p0 input wires for the Garbler's bits
GarblerLabels ==
    [j \in 1..GarblerP0 |->
        LabelFor(garbled_circuit.input_labels[garbled_circuit.circuit.input_wires[j]], garbler_inputs[j])]

\* the Garbler has left the step that sends its labels behind
GPastLabels ==
    \/ gpc \in {"send_ot", "receive_result", "send_goodbye", "exit0"}
    \/ Happened(GSentOT) \/ Happened(GGotResult)

\* C24: the Garbler sends INPUT_LABELS if and only if p0 > 0; the message
\* carries p0 labels, the j-th being the label of input wire j for the
\* Garbler's j-th bit; a Garbler whose bit count is not p0 sends neither
\* CIRCUIT nor INPUT_LABELS
C24_GarblerLabels ==
    /\ Happened(GSentLabels) => (GarblerP0 > 0 /\ Len(garbler_inputs) = GarblerP0)
    /\ (GarblerP0 > 0 /\ GPastLabels) => Happened(GSentLabels)
    /\ Len(garbler_inputs) # GarblerP0 => (~Happened(GSentCircuit) /\ ~Happened(GSentLabels))
    /\ \A k \in DOMAIN g2e :
          (g2e[k].kind = "msg" /\ g2e[k].type = "INPUT_LABELS") =>
              /\ g2e[k].data.count = GarblerP0
              /\ g2e[k].data.labels = GarblerLabels
              /\ g2e[k].size = 4 + WIRE_LABEL_SIZE * GarblerP0

C24_Witness ==
    /\ Happened(GSentLabels)
    /\ GarblerP0 = 2
    /\ garbler_inputs = <<TRUE, FALSE>>
    /\ \E k \in DOMAIN g2e : g2e[k].kind = "msg" /\ g2e[k].type = "INPUT_LABELS"

\* C25: every framed message in either stream has a payload of at most
\* MAX_MESSAGE_SIZE bytes, the CIRCUIT frame of send_circuit included,
\* whatever the number of gates
C25_SentWithinCap ==
    /\ \A k \in DOMAIN g2e : g2e[k].kind = "msg" => g2e[k].size <= MAX_MESSAGE_SIZE
    /\ \A k \in DOMAIN e2g : e2g[k].kind = "msg" => e2g[k].size <= MAX_MESSAGE_SIZE

\* C26: after garble_circuit the input_labels table has a pair for the
\* input wires of the circuit and for no other wire, so encode_inputs and
\* get_ot_input_pairs throw for every wire that is not an input wire
C26_OnlyInputWires ==
    tpc \notin {"off", "start", "garble_failed"} =>
        /\ DOMAIN garbled_circuit.input_labels = Range(circuit.input_wires)
        /\ \A w \in 0..(circuit.num_wires - 1) \ Range(circuit.input_wires) :
              /\ get_ot_input_pairs(garbled_circuit, <<w>>).threw
              /\ \A b \in BOOLEAN : encode_inputs(garbled_circuit, <<b>>, <<w>>).threw

\* ------------------------------------------------------------- blocked reads
\* the Garbler sits in recv() on a stream that is empty and still open
GBlocked ==
    /\ gpc \in {"receive_hello", "receive_result"}
    /\ e2g = <<>>
    /\ ~Exited(epc)

\* the Evaluator sits in recv(): for a frame on an empty stream, or in
\* receive_all for the labels of the OT step with fewer bytes in the stream
\* than it asked for
EBlocked ==
    /\ ~Exited(gpc)
    /\ \/ epc \in {"receive_hello", "receive_circuit", "receive_input_labels", "receive_goodbye"} /\ g2e = <<>>
       \/ epc = "receive_ot" /\ BytesIn(g2e) < 2 * WIRE_LABEL_SIZE * Len(evaluator_inputs)

\* C27: whatever bit counts the two parties were started with, the session
\* never reaches a state where both are blocked in a receive
C27_NoDeadlock == ~(GBlocked /\ EBlocked)

\* C28: every output wire of a circuit the parser accepted is an input wire
\* or the output wire of a gate; once the circuit is garbled, output_mapping
\* has an entry for every output wire and evaluate_circuit returns one
\* label per output wire, whatever the input bits
C28_OutputsDefined ==
    tpc \in {"garbled", "decoded", "decode_failed"} =>
        /\ Range(circuit.output_wires) \subseteq LabelledWires(circuit)
        /\ Range(circuit.output_wires) \subseteq DOMAIN garbled_circuit.output_mapping
        /\ \A bits \in BitVectors(circuit.num_inputs), jbs \in JunkBits(Len(circuit.gates)) :
              LET l == encode_inputs(garbled_circuit, bits, circuit.input_wires)
                  r == evaluate_circuit(garbled_circuit, l.labels, e_use_pandp, jbs)
              IN ~l.threw /\ ~r.threw /\ Len(r.labels) = Len(circuit.output_wires)

\* C29: a Garbler that completed its session has decoded one bit per output
\* wire; a RESULT payload that is not 16 * num_outputs bytes long makes it
\* fail
C29_OneBitPerOutput ==
    (gpc \in {"send_goodbye", "exit0"} /\ Happened(GGotResult)) =>
        Len(final_result) = circuit.num_outputs

\* ---------------------------------------------------- what the Garbler sends
CircuitFields ==
    {"num_gates", "num_inputs", "num_outputs", "input_wires", "output_wires", "gates",
     "ciphertexts", "bytes"}

\* the bytes of the counts, the wire indices, the gate records and the rows
CircuitBytes(data) ==
    12 + 4 * Len(data.input_wires) + 4 * Len(data.output_wires)
       + 13 * Len(data.gates) + 4 * CIPHERTEXT_SIZE * Len(data.ciphertexts)

\* C30: a CIRCUIT payload holds the counts, the wire indices, the gate
\* records and the ciphertext rows and nothing else; the framed messages of
\* the Garbler are HELLO, CIRCUIT, INPUT_LABELS and GOODBYE, and an
\* INPUT_LABELS payload holds labels selected for the Garbler's bits only;
\* the GarbledCircuit of the Evaluator has no input_labels and no
\* output_mapping
C30_LabelTableStaysHome ==
    /\ \A k \in DOMAIN g2e :
          g2e[k].kind = "msg" =>
              /\ g2e[k].type \in {"HELLO", "CIRCUIT", "INPUT_LABELS", "GOODBYE"}
              /\ g2e[k].type = "CIRCUIT" =>
                    /\ DOMAIN g2e[k].data = CircuitFields
                    /\ g2e[k].data.ciphertexts = garbled_circuit.garbled_gates
                    /\ g2e[k].size = CircuitBytes(g2e[k].data)
              /\ g2e[k].type = "INPUT_LABELS" =>
                    Range(g2e[k].data.labels) \subseteq Range(GarblerLabels)
    /\ e_gc.input_labels = EmptyMap
    /\ e_gc.output_mapping = EmptyMap

C30_Witness ==
    /\ Happened(EGotCircuit)
    /\ e_gc.garbled_gates = garbled_circuit.garbled_gates
    /\ e_gc.garbled_gates # <<>>
    /\ DOMAIN garbled_circuit.input_labels # {}
    /\ DOMAIN garbled_circuit.output_mapping # {}
    /\ \E k \in DOMAIN g2e : g2e[k].kind = "msg" /\ g2e[k].type = "INPUT_LABELS"

====
